---- MODULE Spec2Model ----
(***************************************************************************)
(* A model of the browsernotes server's Dropbox client and reMarkable      *)
(* sync engine (src/server/dropbox_proxy.py, src/server/remarkable_sync.py)*)
(*                                                                         *)
(* All control-flow code runs on one asyncio event loop, so the code       *)
(* between two awaits is one atomic action.  Every action below is the     *)
(* arrival of the answer a coroutine is awaiting, followed by everything   *)
(* the coroutine does up to its next await.                                *)
(***************************************************************************)
EXTENDS Integers, Sequences, FiniteSets, TLC

VARIABLES
    file,       \* the persisted CredentialRecord (TOKENS_FILE)
    pkce,       \* _pkce_state holds a code_verifier
    tok,        \* per coroutine: its in-memory `tokens` dict
    cfg,        \* per coroutine: its in-memory `config` dict
    req,        \* per coroutine: the _dropbox_request call it is awaiting
    route,      \* the /api/dropbox/metadata handler
    run,        \* per run_sync invocation: its locals and position
    sched,      \* remarkable_sync_loop: its position and locals
    manual,     \* the /api/remarkable/sync handler
    ocr,        \* the _run_ocr_for_file tasks that have not finished
    auth401,    \* number of 401 answers the remote store gave to sync calls
    trace,      \* whether run_sync's history fields are recorded
    readable,   \* whether reading TOKENS_FILE succeeds at this moment
    asked,      \* the poll interval POST /config stored last; 0 when none
    plog,       \* the remote "OCR Progress Log.txt"
    app,        \* per call of _append_progress_log: its locals and position
    job,        \* per _run_ocr_for_file task: its locals and position
    clock,      \* the date that datetime.now(timezone.utc) returns at this moment
    calc        \* one call of a pure function: its argument and what it returned

plogvars == <<plog, app, job>>
vars == <<file, pkce, tok, cfg, req, route, run, sched, manual, ocr, auth401, trace,
          readable, asked, plogvars, clock, calc>>

----------------------------------------------------------------------------
(* Bounds of the model *)

MaxTok == 3          \* access tokens are 1..MaxTok; 0 is the missing token
MaxRuns == 2         \* run_sync invocations per behaviour
Max401 == 1          \* 401 answers given to the calls of run_sync and OCR
MaxPages == 2        \* listing pages per cycle
MaxApp == 2          \* calls of _append_progress_log in flight at once
MaxAppends == 3      \* calls of _append_progress_log per behaviour
MaxYears == 4        \* _daily_periodic is called on the days of 2025 and the years after
MaxTicks == 1        \* midnights that pass during a behaviour
MaxName == 4         \* parts of a file name
MaxLines == 2        \* text lines on the pages of a PDF
MaxSegments == 3     \* bands of equal rows on a page given to segment_lines
MaxBands == 5        \* bands of ink and of white on a page with paragraph breaks
MaxSheets == 2       \* pages of a PDF given to ocr_pdf

(* Program constants *)
MAX_LOG_ENTRIES == 50
DEFAULT_POLL_INTERVAL == 300
DEFAULT_SOURCE == "/Email Attachments"
DEFAULT_DEST == "/DropsyncFiles/jw-mind/_remarkable-emails-via-browsernotes"

----------------------------------------------------------------------------
(* Coroutines: 0 is the /api/dropbox/metadata handler, 1..MaxRuns are the  *)
(* invocations of run_sync together with the OCR tasks each one spawned,   *)
(* which share its tokens and config dicts.                                *)
Route == 0
RunIds == 1..MaxRuns
Procs == {Route} \cup RunIds

Tokens == 1..MaxTok

(* The token a refresh issues in the specifications of the sync engine. *)
NextToken(t) == (t % MaxTok) + 1

(* A cursor names the folder whose listing issued it. *)
NoCursor == [folder |-> "none", n |-> 0]

(* The remarkable_sync sub-blob.  `present` says whether the key exists in  *)
(* the enclosing dict; every other field holds the value the code reads     *)
(* with config.get(key, default).                                           *)
DefaultConfig ==
    [present |-> FALSE, enabled |-> FALSE, source_folder |-> DEFAULT_SOURCE,
     dest_folder |-> DEFAULT_DEST, poll_interval_seconds |-> DEFAULT_POLL_INTERVAL,
     ocr_enabled |-> TRUE, last_sync_cursor |-> NoCursor, sync_log |-> <<>>]

(* The dict _load_tokens returns when TOKENS_FILE does not exist: {}. *)
EmptyTokens ==
    [exists |-> FALSE, access_token |-> 0, refresh_token |-> FALSE,
     rs |-> DefaultConfig]

(* _load_tokens *)
LoadTokens == IF file.exists THEN file ELSE EmptyTokens

(* The in-memory tokens dict of a coroutine: `attached` says that          *)
(* tokens["remarkable_sync"] is the coroutine's config dict.               *)
MemTokens(t) ==
    [access_token |-> t.access_token, refresh_token |-> t.refresh_token,
     attached |-> t.rs.present]

(* _get_remarkable_config: tokens.get("remarkable_sync", {}) *)
GetRemarkableConfig(t) == t.rs

(* _save_tokens that keeps the sync_log entries of the file which the      *)
(* in-memory dict does not hold.                                           *)
SaveTokensMerging(t, c) ==
    [exists |-> TRUE, access_token |-> t.access_token,
     refresh_token |-> t.refresh_token,
     rs |-> IF t.attached
            THEN [c EXCEPT !.present = TRUE,
                           !.sync_log = @ \o SelectSeq(LoadTokens.rs.sync_log,
                                LAMBDA e : \A i \in 1..Len(c.sync_log) : c.sync_log[i] # e)]
            ELSE DefaultConfig]

(* _save_tokens(tokens): the whole in-memory dict replaces the file. *)
SaveTokens(t, c) ==
    [exists |-> TRUE, access_token |-> t.access_token,
     refresh_token |-> t.refresh_token,
     rs |-> IF t.attached THEN [c EXCEPT !.present = TRUE] ELSE DefaultConfig]

----------------------------------------------------------------------------
(* Answers of the remote store.  status 0 stands for an exception raised   *)
(* by the HTTP client instead of a response.                               *)
Resp(status) ==
    [status |-> status, notfound |-> FALSE, entries |-> <<>>,
     cursor |-> NoCursor, has_more |-> FALSE, size |-> 0]

NoResp == Resp(-1)

(* What a call of _dropbox_request asks for. *)
CallDesc(kind, cursor, path, name) ==
    [kind |-> kind, cursor |-> cursor, path |-> path, name |-> name,
     notebook |-> <<>>, bucket |-> <<>>, from_path |-> ""]

NoCall == CallDesc("none", NoCursor, "", "")

(* One call of _dropbox_request: its position, the Authorization header    *)
(* it sends, and history the code does not read: the first answer, the     *)
(* status of the refresh answer, how often the original request and the    *)
(* refresh call were sent, the token the refresh issued and the            *)
(* access_token the record held right after line 76.                       *)
IdleReq ==
    [pc |-> "idle", call |-> NoCall, bearer |-> 0, first |-> NoResp, refresh |-> -1,
     nSent |-> 0, nRefresh |-> 0, issued |-> 0, saved |-> 0]

(* _dropbox_request up to its first await: the request goes out with the   *)
(* bearer token of the in-memory dict.                                     *)
Call(call, t) ==
    [pc |-> "first", call |-> call, bearer |-> t.access_token, first |-> NoResp,
     refresh |-> -1, nSent |-> 1, nRefresh |-> 0, issued |-> 0, saved |-> 0]

(* ShouldRefresh without the test for a refresh_token. *)
ShouldRefreshAlways(resp, t) == resp.status = 401

(* The condition under which _dropbox_request refreshes the token. *)
ShouldRefresh(resp, t) == resp.status = 401 /\ t.refresh_token

----------------------------------------------------------------------------
(* Remote entries.  The size of a source file is fixed by its name. *)
FileA == [tag |-> "file", name |-> "a.pdf", size |-> 1, path_display |-> "/In/a.pdf"]
FileB == [tag |-> "file", name |-> "b.png", size |-> 2, path_display |-> "/In/b.png"]
FolderD == [tag |-> "folder", name |-> "d", size |-> 0, path_display |-> "/In/d"]

FileC == [tag |-> "file", name |-> "C.PDF", size |-> 1, path_display |-> "/In/C.PDF"]

(* The file of the end-to-end scenario of the tests. *)
FileF ==
    [tag |-> "file", name |-> "~ focus ~ (5).pdf", size |-> 1,
     path_display |-> "/In/~ focus ~ (5).pdf"]

(* str.lower() and str.endswith(".pdf") on the names of the model *)
Lower(name) == IF name = "C.PDF" THEN "c.pdf" ELSE name
EndsWithPdf(name) == name \in {"a.pdf", "c.pdf", "old.pdf", "~ focus ~ (5).pdf"}

(* The characters of the names of the entries of the model. *)
Chars(name) ==
    CASE name = "a.pdf" -> <<"a", ".", "p", "d", "f">>
      [] name = "d" -> <<"d">>
      [] name = "b.png" -> <<"b", ".", "p", "n", "g">>
      [] name = "C.PDF" -> <<"C", ".", "P", "D", "F">>
      [] name = "old.pdf" -> <<"o", "l", "d", ".", "p", "d", "f">>
      [] name = "~ focus ~ (5).pdf" ->
            <<"~", " ", "f", "o", "c", "u", "s", " ", "~", " ", "(", "5", ")",
              ".", "p", "d", "f">>

(* Line 397 with file_name in the place of file_name.lower(). *)
IsPdfCaseSensitive(name) == EndsWithPdf(name)

(* Line 397: file_name.lower().endswith(".pdf") *)
IsPdf(name) == EndsWithPdf(Lower(name))

(* The listing pages the remote store may answer with. *)
RichPages == {<<>>, <<FileA>>, <<FileB>>, <<FolderD>>, <<FolderD, FileA>>}
SmallPages == {<<>>, <<FileA>>}

(* FileEntries without the filter on the tag. *)
FileEntriesUnfiltered(entries) == entries

(* [e for e in data.get("entries", []) if e.get(".tag") == "file"] *)
FileEntries(entries) == SelectSeq(entries, LAMBDA e : e.tag = "file")

(* The number of entries of a page that the remote store tagged file. *)
RECURSIVE CountFiles(_)
CountFiles(entries) ==
    IF entries = <<>> THEN 0
    ELSE (IF Head(entries).tag = "file" THEN 1 ELSE 0) + CountFiles(Tail(entries))

----------------------------------------------------------------------------
(* _extract_notebook_name.  A file name is a sequence of characters; the   *)
(* regular expressions are matched as re matches them: leftmost, \s* and   *)
(* \d+ greedy, .+? lazy.                                                   *)

IsSpace(c) == c = " "
IsDigit(c) == c \in {"0", "1", "2", "3", "4", "5", "6", "7", "8", "9"}

(* The lengths of the longest runs of white space and of digits at p. *)
SpaceRun(s, p) ==
    (CHOOSE k \in p..(Len(s) + 1) :
        /\ \A x \in p..(k - 1) : IsSpace(s[x])
        /\ (k = Len(s) + 1 \/ ~IsSpace(s[k]))) - p

DigitRun(s, p) ==
    (CHOOSE k \in p..(Len(s) + 1) :
        /\ \A x \in p..(k - 1) : IsDigit(s[x])
        /\ (k = Len(s) + 1 \/ ~IsDigit(s[k]))) - p

At(s, p, c) == p <= Len(s) /\ s[p] = c

(* str.strip() *)
Strip(s) ==
    LET inked == {i \in 1..Len(s) : ~IsSpace(s[i])}
    IN  IF inked = {} THEN <<>>
        ELSE SubSeq(s, CHOOSE i \in inked : \A k \in inked : i <= k,
                       CHOOSE i \in inked : \A k \in inked : i >= k)

(* Line 58, re.match(r"^~\s*(.+?)\s*~", file_name): the group can end at j  *)
(* when the white space after j is followed by a tilde.                    *)
GroupEnds(s, i) ==
    {j \in i..Len(s) : At(s, j + 1 + SpaceRun(s, j + 1), "~")}

(* The first characters the group can start at: \s* gives back white       *)
(* space, the longest run first, until the rest matches.                   *)
GroupStarts(s) ==
    IF At(s, 1, "~")
    THEN {i \in 2..(2 + SpaceRun(s, 2)) : GroupEnds(s, i) # {}}
    ELSE {}

(* m.group(1) *)
TildeGroup(s) ==
    LET i == CHOOSE x \in GroupStarts(s) : \A y \in GroupStarts(s) : x >= y
        j == CHOOSE x \in GroupEnds(s, i) : \A y \in GroupEnds(s, i) : x <= y
    IN  SubSeq(s, i, j)

(* "copy", \s*\(\d+\)\s* of line 62, after the leading white space: the    *)
(* parenthesis at a, the digits up to b.                                   *)
CopyEnd(s, a, b) ==
    IF At(s, a, "(") /\ b > a + 1 /\ At(s, b, ")")
    THEN b + 1 + SpaceRun(s, b + 1) ELSE 0

(* "page", \s*-\s*page\s+\d+ of line 63, after the leading white space:    *)
(* the dash at a, the word at b, the digits at c.                          *)
PageEnd(s, a, b, c) ==
    IF /\ At(s, a, "-")
       /\ At(s, b, "p") /\ At(s, b + 1, "a")
       /\ At(s, b + 2, "g") /\ At(s, b + 3, "e")
       /\ c > b + 4 /\ DigitRun(s, c) > 0
    THEN c + DigitRun(s, c) ELSE 0

PageWord(s, a, b) == PageEnd(s, a, b, b + 4 + SpaceRun(s, b + 4))

MatchAt(kind, s, a) ==
    IF kind = "copy" THEN CopyEnd(s, a, a + 1 + DigitRun(s, a + 1))
    ELSE PageWord(s, a, a + 1 + SpaceRun(s, a + 1))

(* Where a match of the pattern that starts at p ends (the position after  *)
(* it), 0 when none starts at p.                                           *)
MatchEnd(kind, s, p) == MatchAt(kind, s, p + SpaceRun(s, p))

(* re.sub(pattern, "", s) from position p on: the matches are cut out from *)
(* left to right.                                                          *)
RECURSIVE Cut(_, _, _)
CutMatch(kind, s, p, end) ==
    IF end # 0 THEN Cut(kind, s, end) ELSE <<s[p]>> \o Cut(kind, s, p + 1)

Cut(kind, s, p) ==
    IF p > Len(s) THEN <<>> ELSE CutMatch(kind, s, p, MatchEnd(kind, s, p))

(* Line 64, re.sub(r"\.[^.]+$", "", name): the last dot and what follows   *)
(* it, when something follows it.                                          *)
CutExtension(s) ==
    LET dots == {i \in 1..Len(s) : s[i] = "."}
        last == CHOOSE i \in dots : \A k \in dots : i >= k
    IN  IF dots # {} /\ last < Len(s) THEN SubSeq(s, 1, last - 1) ELSE s

(* Lines 62-65: the three substitutions, each applied to the result of    *)
(* the one before, and the strip of the result.                            *)
Substituted(file_name) ==
    CHOOSE name \in
        {Strip(c) : c \in
            {CutExtension(b) : b \in
                {Cut("page", a, 1) : a \in {Cut("copy", file_name, 1)}}}} : TRUE

(* _extract_notebook_name with m.group(1) returned as it is. *)
ExtractUnstripped(file_name) ==
    IF GroupStarts(file_name) # {} THEN TildeGroup(file_name)
    ELSE Substituted(file_name)

(* Lines 57-65 *)
ExtractNotebookName(file_name) ==
    IF GroupStarts(file_name) # {} THEN Strip(TildeGroup(file_name))
    ELSE Substituted(file_name)

----------------------------------------------------------------------------
(* _daily_periodic.  A date is [year, month, day]; the arithmetic is that   *)
(* of datetime.date: proleptic Gregorian ordinals, Monday = 0.             *)

IsLeap(year) == year % 4 = 0 /\ (year % 100 # 0 \/ year % 400 = 0)

DaysInMonth(year, month) ==
    IF month = 2 THEN (IF IsLeap(year) THEN 29 ELSE 28)
    ELSE IF month \in {4, 6, 9, 11} THEN 30 ELSE 31

(* The number of days before January 1st of the year. *)
DaysBeforeYear(year) ==
    LET y == year - 1
    IN  y * 365 + y \div 4 - y \div 100 + y \div 400

RECURSIVE DaysBeforeMonth(_, _)
DaysBeforeMonth(year, month) ==
    IF month = 1 THEN 0
    ELSE DaysBeforeMonth(year, month - 1) + DaysInMonth(year, month - 1)

(* date.toordinal(): January 1st of year 1 is day 1. *)
ToOrdinal(dt) == DaysBeforeYear(dt.year) + DaysBeforeMonth(dt.year, dt.month) + dt.day

(* date.weekday() *)
Weekday(dt) == (ToOrdinal(dt) + 6) % 7

(* The ordinal of the Monday that starts ISO week 1 of the year. *)
IsoWeek1Monday(year) ==
    LET firstday == ToOrdinal([year |-> year, month |-> 1, day |-> 1])
        firstweekday == (firstday + 6) % 7
        week1monday == firstday - firstweekday
    IN  IF firstweekday > 3 THEN week1monday + 7 ELSE week1monday

(* The week of the year counted in blocks of seven days from January 1st.  *)
NaiveWeek(dt) == (DaysBeforeMonth(dt.year, dt.month) + dt.day - 1) \div 7 + 1

(* dt.isocalendar()[1], line 70 *)
IsoWeek(dt) ==
    LET today == ToOrdinal(dt)
        week == (today - IsoWeek1Monday(dt.year)) \div 7
    IN  IF week < 0
        THEN (today - IsoWeek1Monday(dt.year - 1)) \div 7 + 1
        ELSE IF week >= 52 /\ today >= IsoWeek1Monday(dt.year + 1) THEN 1
        ELSE week + 1

Digit(n) ==
    CASE n = 0 -> "0" [] n = 1 -> "1" [] n = 2 -> "2" [] n = 3 -> "3" [] n = 4 -> "4"
      [] n = 5 -> "5" [] n = 6 -> "6" [] n = 7 -> "7" [] n = 8 -> "8" [] n = 9 -> "9"

(* The decimal digits of n >= 0, most significant first. *)
RECURSIVE Decimal(_)
Decimal(n) == IF n < 10 THEN <<Digit(n)>> ELSE Decimal(n \div 10) \o <<Digit(n % 10)>>

(* %m, %d and {iso_week:02d}: at least `width` characters, filled up with  *)
(* zeros on the left; %Y of a year of four digits.                         *)
RECURSIVE ZeroPadded(_, _)
ZeroPadded(n, width) ==
    IF Len(Decimal(n)) >= width THEN Decimal(n)
    ELSE <<"0">> \o ZeroPadded(n, width - 1)

(* %a in the C locale *)
DayName(weekday) ==
    CASE weekday = 0 -> <<"M", "o", "n">> [] weekday = 1 -> <<"T", "u", "e">>
      [] weekday = 2 -> <<"W", "e", "d">> [] weekday = 3 -> <<"T", "h", "u">>
      [] weekday = 4 -> <<"F", "r", "i">> [] weekday = 5 -> <<"S", "a", "t">>
      [] weekday = 6 -> <<"S", "u", "n">>

(* Lines 70-71: dt.strftime(f"%Y-%m-%d-W{iso_week:02d}-%a") *)
DailyPeriodic(dt) ==
    ZeroPadded(dt.year, 4) \o <<"-">> \o ZeroPadded(dt.month, 2) \o <<"-">>
        \o ZeroPadded(dt.day, 2) \o <<"-", "W">> \o ZeroPadded(IsoWeek(dt), 2)
        \o <<"-">> \o DayName(Weekday(dt))

----------------------------------------------------------------------------
(* run_sync *)

EmptyResults ==
    [files_copied |-> 0, files_skipped |-> 0, errors |-> <<>>, details |-> <<>>]

(* The locals of one run_sync invocation.  The fields from nListed on are  *)
(* history, which the code does not read: the file entries the listing     *)
(* pages held, the calls made (with the index of the file they were made   *)
(* for), per file the statuses that get_metadata, create_folder and copy   *)
(* were answered with, the cursor a 409 on continue was given for, how the *)
(* cycle ended, and the sync_log and cursor the cycle started from.        *)
IdleRun ==
    [pc |-> "unused", caller |-> "none", source |-> "", dest |-> "", daily |-> <<>>,
     cursor |-> NoCursor, data_cursor |-> NoCursor, pages |-> 0,
     entries |-> <<>>, i |-> 0, size_changed |-> FALSE, results |-> EmptyResults,
     nListed |-> 0, calls |-> <<>>, hist |-> <<>>, stale |-> NoCursor, ended |-> "",
     startLog |-> <<>>, startCursor |-> NoCursor]

(* _add_log_entry with append in the place of insert(0, ...). *)
AddLogEntryAtEnd(config, entry) ==
    [config EXCEPT !.sync_log = SubSeq(@ \o <<entry>>, 1,
                                 IF Len(@) + 1 < MAX_LOG_ENTRIES THEN Len(@) + 1
                                 ELSE MAX_LOG_ENTRIES)]

(* _add_log_entry *)
AddLogEntry(config, entry) ==
    [config EXCEPT !.sync_log = SubSeq(<<entry>> \o @, 1,
                                 IF Len(@) + 1 < MAX_LOG_ENTRIES THEN Len(@) + 1
                                 ELSE MAX_LOG_ENTRIES)]

(* DestPath with the bucket of the moment the file is handled. *)
DestPathOfTheMoment(l, e) ==
    [folder |-> l.dest, notebook |-> ExtractNotebookName(Chars(e.name)),
     bucket |-> DailyPeriodic(clock), name |-> e.name]

(* Lines 344-346, dest_path of the current entry:                          *)
(* f"{dest}/{notebook}/{daily}/{file_name}".  The cycle id stands for the  *)
(* instant `now` in the timestamps.                                        *)
DestPath(l, e) ==
    [folder |-> l.dest, notebook |-> ExtractNotebookName(Chars(e.name)),
     bucket |-> l.daily, name |-> e.name]

(* The calls run_sync makes for the current entry: get_metadata on         *)
(* dest_path, create_folder on dest_folder, and copy from the entry's      *)
(* path_display to dest_path.                                              *)
FileCallTo(kind, e, d) ==
    [CallDesc(kind, NoCursor, d.folder, IF kind = "create_folder" THEN "" ELSE d.name)
        EXCEPT !.notebook = d.notebook, !.bucket = d.bucket,
               !.from_path = IF kind = "copy" THEN e.path_display ELSE ""]

FileCall(kind, l, e) == FileCallTo(kind, e, DestPath(l, e))

LogEntry(r, l, e, status, error) ==
    [timestamp |-> r, file_name |-> e.name, dest_path |-> DestPath(l, e),
     status |-> status, size_bytes |-> e.size, error |-> error,
     ocr_status |-> ""]

Detail(e, status) == [file_name |-> e.name, status |-> status]

(* CursorAfterContinue without lines 293-294. *)
CursorKept(status, cursor) == cursor

(* Lines 293-294: a 409 on list_folder/continue drops the cursor. *)
CursorAfterContinue(status, cursor) == IF status = 409 THEN NoCursor ELSE cursor

(* Decide without the comparison of the sizes. *)
DecideByPresence(resp, size_bytes) ==
    IF resp.status = 200 THEN "skipped" ELSE "copied"

(* Lines 355-373: what run_sync does with one file, given the answer of    *)
(* get_metadata (dest_meta is the body of a 200 answer, None otherwise).   *)
Decide(resp, size_bytes) ==
    LET present == resp.status = 200
        size_changed == present /\ resp.size # size_bytes
    IN  IF present /\ ~size_changed THEN "skipped"
        ELSE IF size_changed THEN "copied (updated)" ELSE "copied"

(* ListFailure without the early return of lines 311-313. *)
ListFailureAlwaysError(results, resp) ==
    [results EXCEPT !.errors = Append(@, "Failed to list source folder")]

(* Lines 308-315: the results run_sync returns when the listing failed. *)
ListFailure(results, resp) ==
    IF resp.status = 409 /\ resp.notfound THEN results
    ELSE [results EXCEPT !.errors = Append(@, "Failed to list source folder")]

(* The locals with the history dropped, for the specifications that do not *)
(* read it.                                                                *)
NoHistory(l) ==
    [l EXCEPT !.nListed = 0, !.calls = <<>>, !.hist = <<>>, !.stale = NoCursor,
              !.startLog = <<>>, !.startCursor = NoCursor]

Recorded(l) == IF trace THEN l ELSE NoHistory(l)

Out(l, c, call, done, spawn) ==
    [run |-> l, cfg |-> c, call |-> call, done |-> done, spawn |-> spawn]

MetaCall(l, i) == FileCall("get_metadata", l, l.entries[i])

(* The end of one iteration of the for loop: the next file, or lines       *)
(* 417-418.                                                                *)
AfterFile(l, c, spawn) ==
    IF l.i < Len(l.entries)
    THEN Out([l EXCEPT !.i = @ + 1, !.pc = "meta"], c, MetaCall(l, l.i + 1), "no", spawn)
    ELSE Out([l EXCEPT !.pc = "returned", !.ended = "saved"], c, NoCall, "save", spawn)

(* OnFileException with the try around the for loop instead of inside it:  *)
(* the first failure ends the batch.                                       *)
OnFileExceptionAborting(r, l, c, msg) ==
    LET e == l.entries[l.i]
    IN  Out([l EXCEPT !.results.errors = Append(@, msg),
                      !.results.details = Append(@, Detail(e, "error")),
                      !.pc = "returned", !.ended = "saved"],
            AddLogEntry(c, LogEntry(r, l, e, "error", msg)), NoCall, "save", {})

(* Lines 401-415: the except branch of one file. *)
OnFileException(r, l, c, msg) ==
    LET e == l.entries[l.i]
    IN  AfterFile([l EXCEPT !.results.errors = Append(@, msg),
                            !.results.details = Append(@, Detail(e, "error"))],
                  AddLogEntry(c, LogEntry(r, l, e, "error", msg)), {})

(* Line 345: the for loop starts, or with no file lines 417-418 follow. *)
ForLoop(l2, c2) ==
    IF l2.entries = <<>>
    THEN Out([l2 EXCEPT !.pc = "returned", !.ended = "saved"], c2, NoCall, "save", {})
    ELSE Out([l2 EXCEPT !.i = 1, !.pc = "meta"], c2, MetaCall(l2, 1), "no", {})

(* Lines 336-345: the cursor of the last page goes into the config dict,   *)
(* the clock is read once and the bucket computed from it, then the for    *)
(* loop starts.                                                            *)
StartFiles(l, c) ==
    ForLoop([l EXCEPT !.daily = DailyPeriodic(clock)],
            IF l.data_cursor # NoCursor
            THEN [c EXCEPT !.last_sync_cursor = l.data_cursor] ELSE c)

(* AfterListing without the while loop of lines 321-334. *)
AfterListingOnePage(l, c, resp) ==
    IF resp.status # 200
    THEN Out([l EXCEPT !.pc = "returned", !.results = ListFailure(@, resp),
                       !.ended = IF resp.status = 409 /\ resp.notfound
                                 THEN "not_found" ELSE "list_failed"],
             c, NoCall, "return", {})
    ELSE StartFiles([l EXCEPT !.entries = FileEntries(resp.entries),
                              !.nListed = CountFiles(resp.entries),
                              !.data_cursor = resp.cursor, !.pages = 1], c)

(* Lines 308-334: the answer of the first listing call. *)
AfterListing(l, c, resp) ==
    IF resp.status # 200
    THEN Out([l EXCEPT !.pc = "returned", !.results = ListFailure(@, resp),
                       !.ended = IF resp.status = 409 /\ resp.notfound
                                 THEN "not_found" ELSE "list_failed"],
             c, NoCall, "return", {})
    ELSE LET l2 == [l EXCEPT !.entries = FileEntries(resp.entries),
                             !.nListed = CountFiles(resp.entries),
                             !.data_cursor = resp.cursor, !.pages = 1]
         IN  IF resp.has_more
             THEN Out([l2 EXCEPT !.pc = "page"], c,
                      CallDesc("continue", resp.cursor, "", ""), "no", {})
             ELSE StartFiles(l2, c)

(* run_sync from the answer it awaits to its next await. *)
RunSyncResume(r, l, c, resp) ==
    CASE l.pc = "mkdest" ->
            \* _ensure_folder_exists swallows every outcome (lines 76-84)
            IF l.cursor # NoCursor
            THEN Out([l EXCEPT !.pc = "cont"], c,
                     CallDesc("continue", l.cursor, "", ""), "no", {})
            ELSE Out([l EXCEPT !.pc = "full"], c,
                     CallDesc("list_folder", NoCursor, l.source, ""), "no", {})
      [] l.pc = "cont" ->
            IF resp.status = 0
            THEN Out([l EXCEPT !.pc = "raised", !.ended = "raised"], c, NoCall, "raise", {})
            ELSE LET cur == CursorAfterContinue(resp.status, l.cursor)
                     l1 == [l EXCEPT !.stale = IF resp.status = 409 THEN l.cursor ELSE @]
                 IN  IF cur = NoCursor
                     THEN Out([l1 EXCEPT !.pc = "full", !.cursor = cur],
                              c, CallDesc("list_folder", NoCursor, l.source, ""), "no", {})
                     ELSE AfterListing(l1, c, resp)
      [] l.pc = "full" ->
            IF resp.status = 0
            THEN Out([l EXCEPT !.pc = "raised", !.ended = "raised"], c, NoCall, "raise", {})
            ELSE AfterListing(l, c, resp)
      [] l.pc = "page" ->
            IF resp.status = 0
            THEN Out([l EXCEPT !.pc = "raised", !.ended = "raised"], c, NoCall, "raise", {})
            ELSE IF resp.status = 200
            THEN LET l2 == [l EXCEPT !.entries = @ \o FileEntries(resp.entries),
                                     !.nListed = @ + CountFiles(resp.entries),
                                     !.data_cursor = resp.cursor, !.pages = @ + 1]
                 IN  IF resp.has_more
                     THEN Out(l2, c, CallDesc("continue", resp.cursor, "", ""), "no", {})
                     ELSE StartFiles(l2, c)
            ELSE StartFiles(l, c)
      [] l.pc = "meta" ->
            LET e == l.entries[l.i]
                lh == [l EXCEPT !.hist = Append(@, [meta |-> resp.status, size |-> resp.size,
                                                    mkdir |-> -1, copy |-> -1])]
            IN  IF resp.status = 0 THEN OnFileException(r, lh, c, "request failed")
                ELSE IF Decide(resp, e.size) = "skipped"
                THEN AfterFile([lh EXCEPT !.results.files_skipped = @ + 1,
                                          !.results.details = Append(@, Detail(e, "skipped"))],
                               AddLogEntry(c, LogEntry(r, l, e, "skipped", "")), {})
                ELSE Out([lh EXCEPT !.pc = "mkdir",
                                    !.size_changed = Decide(resp, e.size) = "copied (updated)"],
                         c, FileCall("create_folder", l, e), "no", {})
      [] l.pc = "mkdir" ->
            \* _ensure_folder_exists swallows every outcome (lines 76-84)
            Out([l EXCEPT !.pc = "copy", !.hist[l.i].mkdir = resp.status], c,
                FileCall("copy", l, l.entries[l.i]), "no", {})
      [] l.pc = "copy" ->
            LET e == l.entries[l.i]
                status == IF l.size_changed THEN "copied (updated)" ELSE "copied"
                lh == [l EXCEPT !.hist[l.i].copy = resp.status]
            IN  IF resp.status = 0 THEN OnFileException(r, lh, c, "request failed")
                ELSE IF resp.status # 200 THEN OnFileException(r, lh, c, "Copy failed")
                ELSE AfterFile([lh EXCEPT !.results.files_copied = @ + 1,
                                         !.results.details = Append(@, Detail(e, status))],
                               AddLogEntry(c, LogEntry(r, l, e, status, "")),
                               IF IsPdf(e.name) /\ c.ocr_enabled
                               THEN {[run |-> r, dest_path |-> DestPath(l, e), now |-> r]}
                               ELSE {})

----------------------------------------------------------------------------
(* What the remote store may answer to the call a coroutine awaits.  A 200 *)
(* answer of a listing call carries a page, a has_more flag and a cursor   *)
(* of the listed folder that no earlier answer carried.                    *)
ListingAnswers(r, folder, pages) ==
    {[status |-> 200, notfound |-> FALSE, entries |-> es,
      cursor |-> [folder |-> folder, n |-> 10 * r + run[r].pages + 1],
      has_more |-> more, size |-> 0] :
        es \in pages, more \in {b \in BOOLEAN : b => run[r].pages + 1 < MaxPages}}

RemoteAnswers(p, pages) ==
    LET call == req[p].call
        auth == IF p = Route \/ auth401 < Max401 THEN {Resp(401)} ELSE {}
    IN  auth \cup
        CASE call.kind = "list_folder" ->
                ListingAnswers(p, call.path, pages)
                \cup {[Resp(409) EXCEPT !.notfound = TRUE], Resp(409), Resp(500), Resp(0)}
          [] call.kind = "continue" ->
                ListingAnswers(p, call.cursor.folder, pages)
                \cup {Resp(409), Resp(500), Resp(0)}
          [] call.kind = "get_metadata" ->
                {[Resp(200) EXCEPT !.size = z] : z \in {1, 2}}
                \cup {Resp(409), Resp(500), Resp(0)}
          [] OTHER -> {Resp(200), Resp(409), Resp(0)}

----------------------------------------------------------------------------
(* The callers of run_sync *)

(* pc is "top" before the first iteration, "running" while run_sync is     *)
(* awaited, "sleeping" while asyncio.sleep(interval) is awaited,           *)
(* "cancelled" after the cancellation of the task and "ended" when an      *)
(* exception has left the while loop.                                      *)
IdleSched == [pc |-> "top", run |-> 0, interval |-> 0]
IdleManual == [pc |-> "idle", run |-> 0, status |-> 0, results |-> EmptyResults]
IdleRoute ==
    [pc |-> "idle", status |-> 0, resp |-> NoResp, wire |-> NoResp, last |-> IdleReq]

Unused == {r \in RunIds : run[r].pc = "unused"}
NewRun == CHOOSE r \in Unused : \A q \in Unused : r <= q

(* Lines 441-447 of remarkable_sync_loop: the interval is read again from  *)
(* the record as persisted when the cycle is over.                         *)
RereadInterval(f) ==
    (IF f.exists THEN f ELSE EmptyTokens).rs.poll_interval_seconds

(* Lines 441-449: the interval the loop sleeps for.  When the record      *)
(* cannot be read the exception is caught and the default is used.         *)
Sleep(f) ==
    [pc |-> "sleeping", run |-> 0,
     interval |-> IF readable THEN RereadInterval(f) ELSE DEFAULT_POLL_INTERVAL]

(* remarkable_sync_loop without the try of lines 425-439. *)
CallerAfterUncaught(l, f, raised) ==
    /\ sched' = IF l.caller = "loop"
                THEN (IF raised THEN [pc |-> "ended", run |-> 0, interval |-> sched.interval]
                      ELSE Sleep(f))
                ELSE sched
    /\ manual' = IF l.caller = "manual"
                 THEN [manual EXCEPT !.pc = "done",
                                     !.status = IF raised THEN 500 ELSE 200,
                                     !.results = l.results]
                 ELSE manual

(* What the caller of run_sync does when the call is over. *)
CallerAfter(l, f, raised) ==
    /\ sched' = IF l.caller = "loop" THEN Sleep(f) ELSE sched
    /\ manual' = IF l.caller = "manual"
                 THEN [manual EXCEPT !.pc = "done",
                                     !.status = IF raised THEN 500 ELSE 200,
                                     !.results = l.results]
                 ELSE manual

(* run_sync, lines 265-281: from its start to the first await. *)
StartRun(r, caller, t) ==
    LET c == GetRemarkableConfig(t)
    IN  /\ tok' = [tok EXCEPT ![r] = MemTokens(t)]
        /\ cfg' = [cfg EXCEPT ![r] = c]
        /\ run' = [run EXCEPT ![r] = Recorded(
                    [IdleRun EXCEPT !.pc = "mkdest", !.caller = caller,
                                    !.source = c.source_folder, !.dest = c.dest_folder,
                                    !.cursor = c.last_sync_cursor,
                                    !.calls = <<[call |-> CallDesc("create_folder", NoCursor,
                                                                   c.dest_folder, ""),
                                                 i |-> 0]>>,
                                    !.startLog = c.sync_log,
                                    !.startCursor = c.last_sync_cursor])]
        /\ req' = [req EXCEPT ![r] =
                    Call(CallDesc("create_folder", NoCursor, c.dest_folder, ""),
                         MemTokens(t))]

(* run_sync has run from the answer it awaited to `out`: the next call is  *)
(* sent, or the record is saved and the caller goes on.                    *)
RunResumed(r, out) ==
        /\ cfg' = [cfg EXCEPT ![r] = out.cfg]
        /\ ocr' = ocr \cup out.spawn
        /\ route' = route
        /\ IF out.done = "no"
           THEN /\ run' = [run EXCEPT ![r] = Recorded(
                            [out.run EXCEPT !.calls =
                                Append(@, [call |-> out.call, i |-> out.run.i])])]
                /\ req' = [req EXCEPT ![r] = Call(out.call, tok[r])]
                /\ UNCHANGED <<file, tok, sched, manual>>
           ELSE /\ run' = [run EXCEPT ![r] = Recorded(out.run)]
                /\ req' = [req EXCEPT ![r] = IdleReq]
                /\ IF out.done = "save"
                   THEN \* _save_remarkable_config(tokens, config), lines 36-38
                        /\ tok' = [tok EXCEPT ![r].attached = TRUE]
                        /\ file' = SaveTokens(tok'[r], out.cfg)
                   ELSE UNCHANGED <<file, tok>>
                /\ CallerAfter(out.run, file', out.done = "raise")

(* run_sync resumes with the answer `resp` of the call it awaited. *)
RunReturn(r, resp) ==
    \E out \in {RunSyncResume(r, run[r], cfg[r], resp)} : RunResumed(r, out)

(* file_metadata, lines 322-337: the status the handler answers with.      *)
(* `last` keeps the call as it was when it returned.                       *)
RouteReturn(resp, wire, last) ==
    /\ route' = [pc |-> "done", resp |-> resp, wire |-> wire, last |-> last,
                 status |-> IF resp.status = 409 THEN 200
                            ELSE IF resp.status = 0 THEN 500 ELSE resp.status]
    /\ req' = [req EXCEPT ![Route] = IdleReq]
    /\ UNCHANGED <<file, tok, cfg, run, sched, manual, ocr>>

(* _dropbox_request hands `resp` to its caller; `wire` is the last answer  *)
(* the remote store gave to the original request.                          *)
Return(p, resp, wire, last) ==
    IF p = Route THEN RouteReturn(resp, wire, last) ELSE RunReturn(p, resp)

----------------------------------------------------------------------------
(* _dropbox_request *)

Count401(p, resp) ==
    /\ auth401' = IF p # Route /\ resp.status = 401 THEN auth401 + 1 ELSE auth401
    /\ UNCHANGED <<trace, readable, asked, clock, calc, plogvars>>

(* Lines 61-72: the answer to the original request arrives. *)
FirstResponse(p, resp) ==
    /\ req[p].pc = "first"
    /\ Count401(p, resp)
    /\ pkce' = pkce
    /\ IF ShouldRefresh(resp, tok[p])
       THEN /\ req' = [req EXCEPT ![p].pc = "refresh", ![p].first = resp,
                                  ![p].nRefresh = @ + 1]
            /\ UNCHANGED <<file, tok, cfg, route, run, sched, manual, ocr>>
       ELSE Return(p, resp, resp, [req[p] EXCEPT !.first = resp])

(* RefreshResponse without the _save_tokens of line 76. *)
RefreshResponseNoSave(p, status, new_token) ==
    /\ req[p].pc = "refresh"
    /\ UNCHANGED <<pkce, auth401, trace, readable, asked, clock, calc, plogvars>>
    /\ IF status = 200
       THEN /\ tok' = [tok EXCEPT ![p].access_token = new_token]
            /\ file' = file
            /\ req' = [req EXCEPT ![p].pc = "retry", ![p].bearer = tok'[p].access_token,
                                  ![p].refresh = status,
                                  ![p].nSent = @ + 1, ![p].issued = new_token,
                                  ![p].saved = file'.access_token]
            /\ UNCHANGED <<cfg, route, run, sched, manual, ocr>>
       ELSE IF status = 0
       THEN Return(p, Resp(0), req[p].first, [req[p] EXCEPT !.refresh = status])
       ELSE Return(p, req[p].first, req[p].first, [req[p] EXCEPT !.refresh = status])

(* Lines 73-83: the answer to the token-refresh call arrives.  status 0 is *)
(* an exception, which leaves _dropbox_request.                            *)
RefreshResponse(p, status, new_token) ==
    /\ req[p].pc = "refresh"
    /\ UNCHANGED <<pkce, auth401, trace, readable, asked, clock, calc, plogvars>>
    /\ IF status = 200
       THEN /\ tok' = [tok EXCEPT ![p].access_token = new_token]
            /\ file' = SaveTokens(tok'[p], cfg[p])
            /\ req' = [req EXCEPT ![p].pc = "retry", ![p].bearer = tok'[p].access_token,
                                  ![p].refresh = status,
                                  ![p].nSent = @ + 1, ![p].issued = new_token,
                                  ![p].saved = file'.access_token]
            /\ UNCHANGED <<cfg, route, run, sched, manual, ocr>>
       ELSE IF status = 0
       THEN Return(p, Resp(0), req[p].first, [req[p] EXCEPT !.refresh = status])
       ELSE Return(p, req[p].first, req[p].first, [req[p] EXCEPT !.refresh = status])

(* RetryResponse with the test of line 63 applied to the retried request   *)
(* as well.                                                                *)
RetryResponseRefreshing(p, resp) ==
    /\ req[p].pc = "retry"
    /\ Count401(p, resp)
    /\ pkce' = pkce
    /\ IF ShouldRefresh(resp, tok[p])
       THEN /\ req' = [req EXCEPT ![p].pc = "refresh", ![p].nRefresh = @ + 1]
            /\ UNCHANGED <<file, tok, cfg, route, run, sched, manual, ocr>>
       ELSE Return(p, resp, resp, req[p])

(* Lines 79-83: the answer to the retried request arrives. *)
RetryResponse(p, resp) ==
    /\ req[p].pc = "retry"
    /\ Count401(p, resp)
    /\ pkce' = pkce
    /\ Return(p, resp, resp, req[p])

----------------------------------------------------------------------------
(* Routes of /api/dropbox *)

(* file_metadata, lines 297-320: up to the await of _dropbox_request. *)
RouteStart ==
    /\ route.pc # "await"
    /\ LET t == LoadTokens
       IN  IF t.access_token = 0
           THEN /\ route' = [IdleRoute EXCEPT !.pc = "done", !.status = 400]
                /\ UNCHANGED <<tok, cfg, req>>
           ELSE /\ route' = [IdleRoute EXCEPT !.pc = "await"]
                /\ tok' = [tok EXCEPT ![Route] = MemTokens(t)]
                /\ cfg' = [cfg EXCEPT ![Route] = GetRemarkableConfig(t)]
                /\ req' = [req EXCEPT ![Route] =
                            Call(CallDesc("get_metadata", NoCursor, "", ""), MemTokens(t))]
    /\ UNCHANGED <<file, pkce, run, sched, manual, ocr, auth401, trace, readable, asked, clock, calc, plogvars>>

(* initiate_auth *)
InitiateAuth ==
    /\ pkce' = TRUE
    /\ UNCHANGED <<file, tok, cfg, req, route, run, sched, manual, ocr, auth401, trace, readable, asked, clock, calc, plogvars>>

(* oauth_callback, lines 120-149: the answer of the code exchange arrives. *)
OAuthCallback(status, access_token, has_refresh) ==
    /\ pkce
    /\ IF status = 200
       THEN /\ file' = [LoadTokens EXCEPT !.exists = TRUE,
                                          !.access_token = access_token,
                                          !.refresh_token = has_refresh \/ @]
            /\ pkce' = FALSE
       ELSE UNCHANGED <<file, pkce>>
    /\ UNCHANGED <<tok, cfg, req, route, run, sched, manual, ocr, auth401, trace, readable, asked, clock, calc, plogvars>>

(* disconnect *)
Disconnect ==
    /\ file' = EmptyTokens
    /\ UNCHANGED <<pkce, tok, cfg, req, route, run, sched, manual, ocr, auth401, trace, readable, asked, clock, calc, plogvars>>

----------------------------------------------------------------------------
(* Routes of /api/remarkable and the poll loop *)

(* A request body of POST /config: `has` holds the keys it carries. *)
Body(has, enabled, source_folder, dest_folder, poll_interval_seconds, ocr_enabled) ==
    [has |-> has, enabled |-> enabled, source_folder |-> source_folder,
     dest_folder |-> dest_folder, poll_interval_seconds |-> poll_interval_seconds,
     ocr_enabled |-> ocr_enabled]

(* str.startswith("/") on the paths of the model *)
StartsWithSlash(path) == path \in {DEFAULT_SOURCE, DEFAULT_DEST, "/Inbox", "/Dest"}

Max(a, b) == IF a >= b THEN a ELSE b

(* ConfigMutation without the pop of lines 504-505. *)
ConfigMutationKeepingCursor(config, body) ==
    LET c1 == IF "enabled" \in body.has
              THEN [config EXCEPT !.enabled = body.enabled] ELSE config
        badSource == "source_folder" \in body.has /\ ~StartsWithSlash(body.source_folder)
        c2 == IF "source_folder" \in body.has
              THEN [c1 EXCEPT !.source_folder = body.source_folder] ELSE c1
        badDest == "dest_folder" \in body.has /\ ~StartsWithSlash(body.dest_folder)
        c3 == IF "dest_folder" \in body.has
              THEN [c2 EXCEPT !.dest_folder = body.dest_folder] ELSE c2
        c4 == IF "poll_interval_seconds" \in body.has
              THEN [c3 EXCEPT !.poll_interval_seconds = Max(60, body.poll_interval_seconds)]
              ELSE c3
        c5 == IF "ocr_enabled" \in body.has
              THEN [c4 EXCEPT !.ocr_enabled = body.ocr_enabled] ELSE c4
    IN  IF badSource \/ badDest THEN [status |-> 400, config |-> config]
        ELSE [status |-> 200, config |-> c5]

(* ConfigMutation with a folder that does not start with `/` left out in   *)
(* the place of the returns of lines 490 and 495.                          *)
ConfigMutationSkippingBad(config, body) ==
    LET good == [body EXCEPT !.has =
                    {k \in @ : /\ (k = "source_folder" => StartsWithSlash(body.source_folder))
                               /\ (k = "dest_folder" => StartsWithSlash(body.dest_folder))}]
    IN  [status |-> 200, config |-> ConfigMutationKeepingCursor(config, good).config]

(* ConfigMutation without the max(60, ...) of line 499. *)
ConfigMutationUnclamped(config, body) ==
    LET m == ConfigMutationKeepingCursor(
                 config, [body EXCEPT !.has = @ \ {"poll_interval_seconds"}])
    IN  IF m.status = 200 /\ "poll_interval_seconds" \in body.has
        THEN [m EXCEPT !.config.poll_interval_seconds = body.poll_interval_seconds]
        ELSE m

(* remarkable_config, lines 486-505: the config dict after the handler's   *)
(* assignments, and whether the handler got as far as saving it.           *)
ConfigMutation(config, body) ==
    LET c1 == IF "enabled" \in body.has
              THEN [config EXCEPT !.enabled = body.enabled] ELSE config
        badSource == "source_folder" \in body.has /\ ~StartsWithSlash(body.source_folder)
        c2 == IF "source_folder" \in body.has
              THEN [c1 EXCEPT !.source_folder = body.source_folder] ELSE c1
        badDest == "dest_folder" \in body.has /\ ~StartsWithSlash(body.dest_folder)
        c3 == IF "dest_folder" \in body.has
              THEN [c2 EXCEPT !.dest_folder = body.dest_folder] ELSE c2
        c4 == IF "poll_interval_seconds" \in body.has
              THEN [c3 EXCEPT !.poll_interval_seconds = Max(60, body.poll_interval_seconds)]
              ELSE c3
        c5 == IF "ocr_enabled" \in body.has
              THEN [c4 EXCEPT !.ocr_enabled = body.ocr_enabled] ELSE c4
        c6 == IF "source_folder" \in body.has
              THEN [c5 EXCEPT !.last_sync_cursor = NoCursor] ELSE c5
    IN  IF badSource \/ badDest THEN [status |-> 400, config |-> config]
        ELSE [status |-> 200, config |-> c6]

(* remarkable_config: there is no await between the load and the save. *)
ConfigRoute(body) ==
    LET t == LoadTokens
        m == ConfigMutation(GetRemarkableConfig(t), body)
        saved == readable /\ m.status = 200
    IN  /\ IF saved
           THEN file' = [t EXCEPT !.exists = TRUE, !.rs = [m.config EXCEPT !.present = TRUE]]
           ELSE file' = file
        /\ asked' = IF saved /\ "poll_interval_seconds" \in body.has
                    THEN m.config.poll_interval_seconds ELSE asked
        /\ UNCHANGED <<pkce, tok, cfg, req, route, run, sched, manual, ocr, auth401, trace,
                       readable, plogvars, clock, calc>>

(* remarkable_sync_now, then run_sync up to its first await. *)
ManualStart ==
    /\ manual.pc # "running"
    /\ LET t == LoadTokens
       IN  IF ~readable
           THEN /\ manual' = [IdleManual EXCEPT !.pc = "done", !.status = 500]
                /\ UNCHANGED <<tok, cfg, req, run>>
           ELSE IF t.access_token = 0
           THEN /\ manual' = [IdleManual EXCEPT !.pc = "done", !.status = 400]
                /\ UNCHANGED <<tok, cfg, req, run>>
           ELSE /\ Unused # {}
                /\ manual' = [IdleManual EXCEPT !.pc = "running", !.run = NewRun]
                /\ StartRun(NewRun, "manual", t)
    /\ UNCHANGED <<file, pkce, route, sched, ocr, auth401, trace, readable, asked, clock, calc, plogvars>>

(* remarkable_sync_loop without the test of line 431. *)
LoopIterateAlways ==
    /\ sched.pc \in {"top", "sleeping"}
    /\ LET t == LoadTokens
           c == GetRemarkableConfig(t)
       IN  IF ~readable
           THEN /\ sched' = Sleep(file)
                /\ UNCHANGED <<tok, cfg, req, run>>
           ELSE /\ Unused # {}
                /\ sched' = [pc |-> "running", run |-> NewRun,
                             interval |-> c.poll_interval_seconds]
                /\ StartRun(NewRun, "loop", t)
    /\ UNCHANGED <<file, pkce, route, manual, ocr, auth401, trace, readable, asked, clock, calc, plogvars>>

(* remarkable_sync_loop, lines 424-439 and, when no cycle runs, 441-449:   *)
(* one iteration from the top of the loop to its next await.  When the     *)
(* record cannot be read, _load_tokens raises at line 426 and again at     *)
(* line 443; both exceptions are caught.                                   *)
LoopIterate ==
    /\ sched.pc \in {"top", "sleeping"}
    /\ LET t == LoadTokens
           c == GetRemarkableConfig(t)
       IN  IF readable /\ c.enabled /\ t.access_token # 0
           THEN /\ Unused # {}
                /\ sched' = [pc |-> "running", run |-> NewRun,
                             interval |-> c.poll_interval_seconds]
                /\ StartRun(NewRun, "loop", t)
           ELSE /\ sched' = Sleep(file)
                /\ UNCHANGED <<tok, cfg, req, run>>
    /\ UNCHANGED <<file, pkce, route, manual, ocr, auth401, trace, readable, asked, clock, calc, plogvars>>

(* main.py, lifespan: the task of the loop is cancelled at shutdown.  The  *)
(* CancelledError is raised at the await the loop is at, and `except       *)
(* Exception` does not catch it; a cycle in flight ends with it.           *)
Cancel ==
    /\ sched.pc \in {"top", "running", "sleeping"}
    /\ sched' = [sched EXCEPT !.pc = "cancelled", !.run = 0]
    /\ IF sched.pc = "running"
       THEN /\ run' = [run EXCEPT ![sched.run].pc = "raised",
                                  ![sched.run].ended = "cancelled"]
            /\ req' = [req EXCEPT ![sched.run] = IdleReq]
       ELSE UNCHANGED <<run, req>>
    /\ UNCHANGED <<file, pkce, tok, cfg, route, manual, ocr, auth401, trace, readable,
                   asked, clock, calc, plogvars>>

(* The record becomes unreadable (a permission or disk error, a record     *)
(* that is not JSON) or readable again.                                    *)
SetReadable(b) ==
    /\ readable # b
    /\ readable' = b
    /\ UNCHANGED <<file, pkce, tok, cfg, req, route, run, sched, manual, ocr, auth401,
                   trace, asked, clock, calc, plogvars>>

----------------------------------------------------------------------------
(* _run_ocr_for_file *)

(* MarkOcr without the comparison of the timestamps and without the break  *)
(* of line 245: every entry with this dest_path gets the OCR fields.       *)
MarkOcrEveryCopy(log, dest_path, now) ==
    [i \in 1..Len(log) |->
        IF log[i].dest_path = dest_path
        THEN [log[i] EXCEPT !.ocr_status = "completed"] ELSE log[i]]

(* Lines 238-245: the first entry with this dest_path and timestamp gets   *)
(* the OCR fields.                                                         *)
RECURSIVE MarkOcr(_, _, _)
MarkOcr(log, dest_path, now) ==
    IF log = <<>> THEN <<>>
    ELSE IF Head(log).dest_path = dest_path /\ Head(log).timestamp = now
    THEN <<[Head(log) EXCEPT !.ocr_status = "completed"]>> \o Tail(log)
    ELSE <<Head(log)>> \o MarkOcr(Tail(log), dest_path, now)

(* One of the task's calls of _dropbox_request got a 401 and refreshed the *)
(* token: the task's tokens dict, which is the dict of the cycle that      *)
(* spawned it, is saved (dropbox_proxy.py lines 73-76).                    *)
OcrRefreshed(task, new_token) ==
    /\ task \in ocr
    /\ auth401 < Max401
    /\ tok[task.run].refresh_token
    /\ auth401' = auth401 + 1
    /\ UNCHANGED <<trace, readable, asked, clock, calc, plogvars>>
    /\ tok' = [tok EXCEPT ![task.run].access_token = new_token]
    /\ file' = SaveTokens(tok'[task.run], cfg[task.run])
    /\ UNCHANGED <<pkce, cfg, req, route, run, sched, manual, ocr>>

(* Lines 223-262: recognition is over.  With text, the entry is marked in  *)
(* the config dict of the spawning cycle and that dict is saved into the   *)
(* record as loaded at this moment.                                        *)
OcrFinish(task, outcome) ==
    /\ task \in ocr
    /\ ocr' = ocr \ {task}
    /\ IF outcome = "text"
       THEN /\ cfg' = [cfg EXCEPT ![task.run].sync_log =
                          MarkOcr(@, task.dest_path, task.now)]
            /\ file' = [LoadTokens EXCEPT !.exists = TRUE,
                           !.rs = [cfg'[task.run] EXCEPT !.present = TRUE]]
       ELSE UNCHANGED <<file, cfg>>
    /\ UNCHANGED <<pkce, tok, req, route, run, sched, manual, auth401, trace, readable, asked, clock, calc, plogvars>>

----------------------------------------------------------------------------
(* _append_progress_log *)

MAX_PROGRESS_LOG_LINES == 200

(* Texts are sequences of characters.  Newline is "\n", Stamp stands for   *)
(* the bracketed timestamp and the blank after it, every other character   *)
(* is a positive number.  The log is uploaded as UTF-8 and decoded as      *)
(* UTF-8, which gives back the characters that were written.               *)
Newline == 0
Stamp == -1

(* text[lo..hi].split("\n"): the pieces between the line breaks, by       *)
(* halves; the last piece of the left half and the first piece of the      *)
(* right half are one piece.                                               *)
RECURSIVE Pieces(_, _, _)
Pieces(text, lo, hi) ==
    IF lo = hi
    THEN (IF text[lo] = Newline THEN << <<>>, <<>> >> ELSE << <<text[lo]>> >>)
    ELSE LET mid == (lo + hi) \div 2
             l == Pieces(text, lo, mid)
             r == Pieces(text, mid + 1, hi)
         IN  SubSeq(l, 1, Len(l) - 1) \o << l[Len(l)] \o r[1] >> \o Tail(r)

(* str.splitlines(): a trailing "\n" does not open a last, empty line. *)
SplitLines(text) ==
    IF text = <<>> THEN <<>>
    ELSE LET p == Pieces(text, 1, Len(text))
         IN  IF text[Len(text)] = Newline THEN SubSeq(p, 1, Len(p) - 1) ELSE p

(* "\n".join(lines[lo..hi]) *)
RECURSIVE JoinRange(_, _, _)
JoinRange(lines, lo, hi) ==
    IF lo > hi THEN <<>>
    ELSE IF lo = hi THEN lines[lo]
    ELSE LET mid == (lo + hi) \div 2
         IN  JoinRange(lines, lo, mid) \o <<Newline>> \o JoinRange(lines, mid + 1, hi)

JoinLines(lines) == JoinRange(lines, 1, Len(lines))

(* lines[-n:] *)
LastLines(lines, n) ==
    IF Len(lines) <= n THEN lines ELSE SubSeq(lines, Len(lines) - n + 1, Len(lines))

(* Line 161: f"[{timestamp}] {message}" *)
NewLine(message) == <<Stamp>> \o message

(* Lines 170-172 *)
AppendAndCap(lines, new_line) ==
    LastLines(Append(lines, new_line), MAX_PROGRESS_LOG_LINES)

NoLog == [exists |-> FALSE, text |-> <<>>]

AppIds == 1..MaxApp

IdleApp ==
    [pc |-> "idle", owner |-> 0, kind |-> "", message |-> <<>>, text |-> <<>>,
     n |-> 0, fetched |-> "", stored |-> ""]

(* Number of calls of _append_progress_log so far. *)
RECURSIVE Started(_)
Started(ids) ==
    IF ids = {} THEN 0
    ELSE LET a == CHOOSE x \in ids : TRUE IN app[a].n + Started(ids \ {a})

(* Lines 153-164: from the call to the await of the download. *)
AppendProgressLog(a, owner, kind, message) ==
    /\ app[a].pc \in {"idle", "done", "raised"}
    /\ app' = [app EXCEPT ![a] = [IdleApp EXCEPT !.pc = "download", !.owner = owner,
                                                 !.kind = kind, !.message = message,
                                                 !.n = app[a].n + 1]]

(* Lines 164-175: the download is over.  Any exception, the one raised for *)
(* a status other than 200 included, leaves the list empty.                *)
AppendDownloaded(a, answered) ==
    /\ app[a].pc = "download"
    /\ LET ok == answered /\ plog.exists
           lines == IF ok THEN SplitLines(plog.text) ELSE <<>>
       IN  app' = [app EXCEPT ![a].pc = "upload",
                              ![a].fetched = IF ok THEN "ok" ELSE "failed",
                              ![a].text = JoinLines(AppendAndCap(lines,
                                              NewLine(app[a].message))) \o <<Newline>>]
    /\ UNCHANGED <<file, pkce, tok, cfg, req, route, run, sched, manual, ocr, auth401,
                   trace, readable, asked, clock, calc, plog, job>>

(* Lines 174-177 without the try: the exception of the upload leaves      *)
(* _append_progress_log.                                                   *)
AppendUploadedUncaught(a, outcome) ==
    /\ app[a].pc = "upload"
    /\ app' = [app EXCEPT ![a] = [IdleApp EXCEPT
                              !.pc = IF outcome = "raised" THEN "raised" ELSE "done",
                              !.n = app[a].n, !.stored = outcome]]
    /\ plog' = IF outcome = "stored" THEN [exists |-> TRUE, text |-> app[a].text]
               ELSE plog
    /\ UNCHANGED <<file, pkce, tok, cfg, req, route, run, sched, manual, ocr, auth401,
                   trace, readable, asked, clock, calc, job>>

(* Lines 174-177: the upload is over.  _upload_text does not look at the   *)
(* status of the answer, and an exception is logged and dropped.           *)
AppendUploaded(a, outcome) ==
    /\ app[a].pc = "upload"
    /\ app' = [app EXCEPT ![a] = [IdleApp EXCEPT !.pc = "done", !.n = app[a].n,
                                                 !.stored = outcome]]
    /\ plog' = IF outcome = "stored" THEN [exists |-> TRUE, text |-> app[a].text]
               ELSE plog
    /\ UNCHANGED <<file, pkce, tok, cfg, req, route, run, sched, manual, ocr, auth401,
                   trace, readable, asked, clock, calc, job>>

UploadOutcomes == {"stored", "refused", "raised"}

----------------------------------------------------------------------------
(* _run_ocr_for_file, step by step *)

(* pc: "none" before the task runs; "log" while it awaits the call of      *)
(* _append_progress_log held in `app`, with `then` the place it goes on    *)
(* from; "download", "recognise" and "upload" while it awaits the PDF,     *)
(* the worker thread and the upload of the text; "done" after its return   *)
(* and "crashed" when an exception has left the coroutine.  `wait` is the  *)
(* call of _append_progress_log the worker thread blocks on;               *)
(* `total_lines` is the line count of ocr_pdf's first pass, `text` what    *)
(* ocr_pdf returned, `txt_name` the file name in txt_path.  History:       *)
(* `failure` is what went wrong, `msgs` the kinds of the lines handed to   *)
(* _append_progress_log, `timeouts` the milestone writes given up after 15 *)
(* seconds.                                                                *)
IdleJob ==
    [pc |-> "none", then |-> "", app |-> 0, wait |-> 0, lines_done |-> 0,
     total_lines |-> 0, text |-> <<>>, txt_name |-> <<>>, logged |-> {},
     failure |-> "", msgs |-> <<>>, uploaded |-> "",
     marked |-> FALSE, timeouts |-> 0]

(* The lines of the Progress Log are told apart by their kind. *)
KindCode(kind) ==
    CASE kind = "started" -> 1
      [] kind = "25%" -> 25
      [] kind = "50%" -> 50
      [] kind = "75%" -> 75
      [] kind = "completed" -> 100
      [] kind = "no text" -> 101
      [] kind = "error" -> 102

Message(kind) == <<KindCode(kind)>>

(* A call slot no coroutine is using or waiting for. *)
Unclaimed(a) ==
    /\ app[a].pc \in {"idle", "done", "raised"}
    /\ \A r \in RunIds : job[r].app # a /\ job[r].wait # a

(* The slot a new call of a task takes: the first unclaimed one. *)
FreeApp(a) == Unclaimed(a) /\ \A b \in AppIds : b < a => ~Unclaimed(b)

TaskOfJob(r) == CHOOSE task \in ocr : task.run = r

(* The task awaits _append_progress_log(tokens, dest_folder, message). *)
JobLog(j, a, kind, then) ==
    [j EXCEPT !.pc = "log", !.then = then, !.app = a, !.msgs = Append(@, kind)]

(* The except block of lines 253-262, when the exception leaves the task. *)
OnOcrExceptionUncaught(r, j, a, cause) ==
    /\ job' = [job EXCEPT ![r] = [j EXCEPT !.pc = "crashed", !.failure = cause]]
    /\ ocr' = ocr \ {TaskOfJob(r)}
    /\ app' = app

(* The except block of lines 253-262: the error line is written. *)
OnOcrException(r, j, a, cause) ==
    /\ FreeApp(a)
    /\ job' = [job EXCEPT ![r] = JobLog([j EXCEPT !.failure = cause], a, "error", "end")]
    /\ AppendProgressLog(a, r, "error", Message("error"))
    /\ ocr' = ocr

(* Lines 190-194: the task starts and writes the `OCR started` line. *)
JobStart(task, a) ==
    /\ task \in ocr
    /\ job[task.run].pc = "none"
    /\ FreeApp(a)
    /\ job' = [job EXCEPT ![task.run] = JobLog(IdleJob, a, "started", "download")]
    /\ AppendProgressLog(a, task.run, "started", Message("started"))
    /\ UNCHANGED <<file, pkce, tok, cfg, req, route, run, sched, manual, ocr, auth401,
                   trace, readable, asked, clock, calc, plog>>

(* The awaited call of _append_progress_log is over.  After the            *)
(* `completed` line the entry is marked (lines 238-245) and the config     *)
(* dict is saved into the record as loaded at this moment (line 246),      *)
(* unless the record cannot be read or written.                            *)
JobLogged(r, a, saved) ==
    LET j == [job[r] EXCEPT !.app = 0]
        task == TaskOfJob(r)
    IN  /\ job[r].pc = "log"
        /\ app[job[r].app].pc \in {"done", "raised"}
        /\ IF app[job[r].app].pc = "raised"
           THEN /\ IF job[r].then = "end"
                   THEN /\ job' = [job EXCEPT ![r] = [j EXCEPT !.pc = "done"]]
                        /\ ocr' = ocr \ {task}
                        /\ app' = app
                   ELSE OnOcrException(r, j, a, "log")
                /\ UNCHANGED <<file, cfg>>
           ELSE CASE job[r].then = "download" ->
                        /\ job' = [job EXCEPT ![r] = [j EXCEPT !.pc = "download"]]
                        /\ UNCHANGED <<file, cfg, ocr, app>>
                  [] job[r].then = "save" ->
                        /\ cfg' = [cfg EXCEPT ![r].sync_log =
                                      MarkOcr(@, task.dest_path, task.now)]
                        /\ IF readable /\ saved
                           THEN /\ file' = [LoadTokens EXCEPT !.exists = TRUE,
                                               !.rs = [cfg'[r] EXCEPT !.present = TRUE]]
                                /\ job' = [job EXCEPT ![r] =
                                             [j EXCEPT !.pc = "done", !.marked = TRUE]]
                                /\ ocr' = ocr \ {task}
                                /\ app' = app
                           ELSE /\ file' = file
                                /\ OnOcrException(r, j, a, "save")
                  [] job[r].then = "end" ->
                        /\ job' = [job EXCEPT ![r] = [j EXCEPT !.pc = "done"]]
                        /\ ocr' = ocr \ {task}
                        /\ UNCHANGED <<file, cfg, app>>
        /\ UNCHANGED <<pkce, tok, req, route, run, sched, manual, auth401, trace, readable,
                       asked, clock, calc, plog>>

(* Line 196: the download of the PDF is over. *)
JobDownloaded(r, a, ok) ==
    /\ job[r].pc = "download"
    /\ IF ok
       THEN /\ job' = [job EXCEPT ![r].pc = "recognise", ![r].total_lines = MaxLines]
            /\ UNCHANGED <<ocr, app>>
       ELSE OnOcrException(r, job[r], a, "download")
    /\ UNCHANGED <<file, pkce, tok, cfg, req, route, run, sched, manual, auth401, trace,
                   readable, asked, clock, calc, plog>>

(* progress_callback, lines 202-208, with the guard `threshold not in      *)
(* thresholds_logged` left out.                                            *)
PendingAgain(j) ==
    IF j.total_lines <= 0 THEN {}
    ELSE {th \in {25, 50, 75} : (j.lines_done * 100) \div j.total_lines >= th}

(* progress_callback, lines 202-208: nothing when total_lines <= 0;        *)
(* otherwise the thresholds that pct = int(lines_done / total_lines * 100) *)
(* has reached and that are not yet in thresholds_logged.                  *)
Pending(j) ==
    IF j.total_lines <= 0 THEN {}
    ELSE {th \in {25, 50, 75} :
             (j.lines_done * 100) \div j.total_lines >= th /\ th \notin j.logged}

ThresholdKind(th) == IF th = 25 THEN "25%" ELSE IF th = 50 THEN "50%" ELSE "75%"

(* ocr.py, lines 183-187: the worker thread recognises one more line. *)
JobRecogniseLine(r) ==
    /\ job[r].pc = "recognise" /\ job[r].wait = 0
    /\ Pending(job[r]) = {}
    /\ job[r].lines_done < MaxLines
    /\ job' = [job EXCEPT ![r].lines_done = @ + 1]
    /\ UNCHANGED <<file, pkce, tok, cfg, req, route, run, sched, manual, ocr, auth401,
                   trace, readable, asked, clock, calc, plog, app>>

(* progress_callback, lines 206-212: the worker thread hands a milestone   *)
(* line to the event loop and blocks on its future.                        *)
JobMilestone(r, a) ==
    /\ job[r].pc = "recognise" /\ job[r].wait = 0
    /\ Pending(job[r]) # {}
    /\ FreeApp(a)
    /\ LET th == CHOOSE x \in Pending(job[r]) : \A y \in Pending(job[r]) : x <= y
       IN  /\ job' = [job EXCEPT ![r].logged = @ \cup {th}, ![r].wait = a,
                                 ![r].msgs = Append(@, ThresholdKind(th))]
           /\ AppendProgressLog(a, r, ThresholdKind(th), Message(ThresholdKind(th)))
    /\ UNCHANGED <<file, pkce, tok, cfg, req, route, run, sched, manual, ocr, auth401,
                   trace, readable, asked, clock, calc, plog>>

(* The worker calls progress_callback(lines_done, total_lines), line 202,  *)
(* with any two numbers, after the previous call has returned.             *)
ProgressReport(r, lines_done, total_lines) ==
    /\ job[r].pc = "recognise" /\ job[r].wait = 0
    /\ Pending(job[r]) = {}
    /\ job' = [job EXCEPT ![r].lines_done = lines_done, ![r].total_lines = total_lines]
    /\ UNCHANGED <<file, pkce, tok, cfg, req, route, run, sched, manual, ocr, auth401,
                   trace, readable, asked, clock, calc, plog, app>>

(* progress_callback, lines 213-216: future.result(timeout=15) returns or  *)
(* raises; the worker thread goes on either way.                           *)
JobMilestoneOver(r, timeout) ==
    /\ job[r].pc = "recognise" /\ job[r].wait # 0
    /\ IF timeout THEN app[job[r].wait].pc \in {"download", "upload"}
       ELSE app[job[r].wait].pc \in {"done", "raised"}
    /\ job' = [job EXCEPT ![r].wait = 0,
                          ![r].timeouts = IF timeout THEN @ + 1 ELSE @]
    /\ UNCHANGED <<file, pkce, tok, cfg, req, route, run, sched, manual, ocr, auth401,
                   trace, readable, asked, clock, calc, plog, app>>

(* ocr.py, lines 177-192: the text of a PDF of one page on which n lines   *)
(* were recognised, each as `recognised`: the texts joined by "\n".        *)
OcrText(n, recognised) == JoinLines([i \in 1..n |-> recognised])

(* text.strip(), lines 225 and 229: the text from its first to its last    *)
(* character that is not white space.                                      *)
StripText(text) ==
    LET inked == {i \in 1..Len(text) : text[i] # Newline}
    IN  IF inked = {} THEN <<>>
        ELSE SubSeq(text, CHOOSE i \in inked : \A k \in inked : i <= k,
                          CHOOSE i \in inked : \A k \in inked : i >= k)

(* Line 226, dest_path.rsplit(".", 1)[0] + ".txt", on the file name, which *)
(* holds the last dot of the path: a name without a dot is kept whole.     *)
TxtName(name) ==
    LET dots == {i \in 1..Len(name) : name[i] = "."}
        stem == IF dots = {} THEN name
                ELSE SubSeq(name, 1, (CHOOSE i \in dots : \A k \in dots : i >= k) - 1)
    IN  stem \o <<".", "t", "x", "t">>

(* ocr.py, lines 158-204: ocr_pdf returns no text.  The PDF cannot be      *)
(* rendered ("corrupt") or a line cannot be recognised ("recognition"):    *)
(* the exception is caught in ocr_pdf, which returns ""; or no line is     *)
(* found on the pages, or every line is recognised as blank ("blank").     *)
(* Lines 247-252 write the `no text detected` line.                        *)
JobNoText(r, a, why) ==
    /\ job[r].pc = "recognise" /\ job[r].wait = 0
    /\ Pending(job[r]) = {}
    /\ CASE why = "recognition" -> job[r].lines_done < MaxLines
         [] why = "corrupt" -> job[r].lines_done = 0
         [] why = "blank" -> job[r].lines_done \in {0, MaxLines}
    /\ FreeApp(a)
    /\ LET text == IF why = "blank" THEN OcrText(job[r].lines_done, <<>>) ELSE <<>>
       IN  /\ StripText(text) = <<>>
           /\ job' = [job EXCEPT ![r] =
                         JobLog([job[r] EXCEPT !.text = text,
                                               !.failure = IF why = "blank" THEN "" ELSE why],
                                a, "no text", "end")]
    /\ AppendProgressLog(a, r, "no text", Message("no text"))
    /\ UNCHANGED <<file, pkce, tok, cfg, req, route, run, sched, manual, ocr, auth401,
                   trace, readable, asked, clock, calc, plog>>

(* Lines 219-227: ocr_pdf returns the text of all lines; the upload of the *)
(* text file is awaited.                                                   *)
JobRecognised(r) ==
    /\ job[r].pc = "recognise" /\ job[r].wait = 0
    /\ Pending(job[r]) = {}
    /\ job[r].lines_done = MaxLines
    /\ LET text == OcrText(job[r].lines_done, <<1>>)
       IN  /\ StripText(text) # <<>>
           /\ job' = [job EXCEPT ![r].pc = "upload", ![r].text = text,
                                 ![r].txt_name = TxtName(Chars(TaskOfJob(r).dest_path.name))]
    /\ UNCHANGED <<file, pkce, tok, cfg, req, route, run, sched, manual, ocr, auth401,
                   trace, readable, asked, clock, calc, plog, app>>

(* Lines 227-235: the upload of the text file is over; _upload_text does   *)
(* not look at the status of the answer.                                   *)
JobUploaded(r, a, outcome) ==
    /\ job[r].pc = "upload"
    /\ IF outcome = "raised"
       THEN OnOcrException(r, [job[r] EXCEPT !.uploaded = outcome], a, "upload")
       ELSE /\ FreeApp(a)
            /\ job' = [job EXCEPT ![r] =
                          JobLog([job[r] EXCEPT !.uploaded = outcome], a, "completed", "save")]
            /\ AppendProgressLog(a, r, "completed", Message("completed"))
            /\ ocr' = ocr
    /\ UNCHANGED <<file, pkce, tok, cfg, req, route, run, sched, manual, auth401, trace,
                   readable, asked, clock, calc, plog>>

----------------------------------------------------------------------------
(* Initial states *)

(* An entry left in sync_log by a cycle that ran before the behaviour. *)
OldEntry ==
    [timestamp |-> 0, file_name |-> "old.pdf",
     dest_path |-> [folder |-> DEFAULT_DEST, notebook |-> <<"o", "l", "d">>,
                    bucket |-> <<>>, name |-> "old.pdf"],
     status |-> "copied", size_bytes |-> 1, error |-> "", ocr_status |-> ""]

OldLog(n) == [i \in 1..n |-> OldEntry]

(* The record after an OAuth exchange and a config request. *)
Connected(cursor, log) ==
    [exists |-> TRUE, access_token |-> 1, refresh_token |-> TRUE,
     rs |-> [DefaultConfig EXCEPT !.present = TRUE, !.enabled = TRUE,
                                  !.last_sync_cursor = cursor, !.sync_log = log]]

(* The day of the example of _daily_periodic's docstring, a Sunday. *)
Epoch == [year |-> 2026, month |-> 2, day |-> 8]

(* No pure function is being called. *)
NoCalc == [pc |-> "idle", arg |-> <<>>, out |-> <<>>, again |-> <<>>]

(* The server after construction, its clock and files apart. *)
InitCore ==
    /\ pkce = FALSE
    /\ tok = [p \in Procs |-> MemTokens(EmptyTokens)]
    /\ cfg = [p \in Procs |-> DefaultConfig]
    /\ req = [p \in Procs |-> IdleReq]
    /\ route = IdleRoute
    /\ run = [r \in RunIds |-> IdleRun]
    /\ sched = IdleSched
    /\ manual = IdleManual
    /\ ocr = {}
    /\ auth401 = 0
    /\ readable = TRUE
    /\ asked = 0
    /\ app = [a \in AppIds |-> IdleApp]
    /\ job = [r \in RunIds |-> IdleJob]

InitBase == clock = Epoch /\ calc = NoCalc /\ InitCore

InitRest == InitBase /\ plog = NoLog

----------------------------------------------------------------------------
(* SpecReq: one handler calling _dropbox_request again and again, while    *)
(* the record is created by OAuth exchanges and deleted by disconnects.    *)

InitReq == file = EmptyTokens /\ trace = TRUE /\ InitRest

NextReq ==
    \/ RouteStart
    \/ \E resp \in RemoteAnswers(Route, {<<>>}) : FirstResponse(Route, resp)
    \/ \E status \in {200, 400, 0}, t \in Tokens :
          t # tok[Route].access_token /\ RefreshResponse(Route, status, t)
    \/ \E resp \in RemoteAnswers(Route, {<<>>}) : RetryResponse(Route, resp)
    \/ InitiateAuth
    \/ \E status \in {200, 400}, t \in Tokens, b \in BOOLEAN : OAuthCallback(status, t, b)
    \/ Disconnect

SpecReq == InitReq /\ [][NextReq]_vars

(* C1: for every call of _dropbox_request, whatever the remote store       *)
(* answers, the original request is sent at most twice and the refresh     *)
(* call at most once; the answer of the retry, a 401 included, is the      *)
(* answer handed to the caller, with no refresh after it.                  *)
C1_AtMostOneRetry ==
    /\ \A p \in Procs : req[p].nSent <= 2 /\ req[p].nRefresh <= 1
    /\ route.last.nSent <= 2 /\ route.last.nRefresh <= 1
    /\ (route.pc = "done" /\ route.last.pc = "retry") =>
          /\ route.resp = route.wire
          /\ route.last.nSent = 2
          /\ route.last.nRefresh = 1

(* A call whose retry was answered 401 has returned that 401. *)
C1_Witness ==
    /\ route.pc = "done"
    /\ route.last.pc = "retry"
    /\ route.last.first.status = 401
    /\ route.wire.status = 401
    /\ route.resp.status = 401
    /\ route.status = 401

(* C2: when the first answer is 401, a refresh_token is present and the    *)
(* refresh call returns 200, the new access_token is in the persisted      *)
(* record before the retry goes out, the retry carries the new token, the  *)
(* caller gets the retry's answer, and the caller's in-memory credentials  *)
(* hold the new token afterwards.                                          *)
C2_RefreshThenRetry ==
    /\ req[Route].pc = "retry" =>
          /\ req[Route].first.status = 401
          /\ req[Route].saved = req[Route].issued
          /\ req[Route].bearer = req[Route].issued
          /\ tok[Route].access_token = req[Route].issued
    /\ (route.pc = "done" /\ route.last.first.status = 401
          /\ tok[Route].refresh_token /\ route.last.refresh = 200) =>
          /\ route.last.pc = "retry"
          /\ route.last.saved = route.last.issued
          /\ route.last.bearer = route.last.issued
          /\ route.resp = route.wire
          /\ tok[Route].access_token = route.last.issued

(* A call returned the 200 answer of a retry sent with a token that is not *)
(* the one the first request carried.                                      *)
C2_Witness ==
    /\ route.pc = "done"
    /\ route.last.refresh = 200
    /\ route.resp.status = 200
    /\ route.last.issued = 2
    /\ tok[Route].access_token = 2

(* The case C3 is about: the call has returned, its first answer was 401   *)
(* and there was no refresh_token or the refresh call returned an answer   *)
(* other than 200.                                                         *)
RefreshImpossible(rt, t) ==
    /\ rt.pc = "done"
    /\ rt.last.first.status = 401
    /\ \/ ~t.refresh_token
       \/ rt.last.refresh \notin {-1, 0, 200}

(* The steps of such a call write neither the record nor the tokens dict. *)
NothingWritten ==
    /\ (route.pc = "await" /\ RefreshImpossible(route', tok[Route])) =>
            (file' = file /\ tok' = tok)
    /\ (req[Route].pc = "first" /\ req'[Route].pc = "refresh") =>
            (file' = file /\ tok' = tok)

----------------------------------------------------------------------------
(* SpecCycle: one reconciliation cycle, started by the manual trigger on   *)
(* a record that earlier cycles left, against a remote store that answers  *)
(* every call in every way.                                                *)

InitCycle ==
    /\ file \in {Connected(c, OldLog(1)) :
                    c \in {NoCursor, [folder |-> DEFAULT_SOURCE, n |-> 0]}}
    /\ trace = TRUE
    /\ InitRest

NextCycle ==
    \/ Unused = RunIds /\ ManualStart
    \/ \E r \in RunIds : \E resp \in RemoteAnswers(r, RichPages) : FirstResponse(r, resp)
    \/ \E r \in RunIds : \E status \in {200, 400} :
          RefreshResponse(r, status, NextToken(tok[r].access_token))
    \/ \E r \in RunIds : \E resp \in RemoteAnswers(r, RichPages) : RetryResponse(r, resp)

SpecCycle == InitCycle /\ [][NextCycle]_vars

(* run_sync has returned a result to its caller. *)
Returned(r) == run[r].pc = "returned"

(* The calls of one kind that cycle r made for its file number k. *)
CallsFor(r, kind, k) ==
    {j \in 1..Len(run[r].calls) :
        run[r].calls[j].call.kind = kind /\ run[r].calls[j].i = k}

(* The calls of one kind that cycle r made. *)
CallsOf(r, kind) ==
    {j \in 1..Len(run[r].calls) : run[r].calls[j].call.kind = kind}

(* The files of cycle r whose iteration of the for loop is over. *)
Processed(r) == 1..Len(run[r].results.details)

(* The sync_log entry that cycle r wrote for its file number k. *)
EntryOf(r, k) == cfg[r].sync_log[Len(run[r].results.details) - k + 1]

Sum(results) ==
    results.files_copied + results.files_skipped + Len(results.errors)

(* C4 as claimed: for every run of run_sync that returns a result,         *)
(* including the runs whose listing call fails, files_copied +             *)
(* files_skipped + len(errors) is the number of file entries listed.       *)
C4_Original ==
    \A r \in RunIds : Returned(r) => Sum(run[r].results) = run[r].nListed

(* C4: for every run of run_sync that returns a result, files_copied +     *)
(* files_skipped + len(errors) is the number of file entries listed,       *)
(* except when the first listing call fails for another reason than a      *)
(* missing source folder: then no file is listed, both counts are 0 and    *)
(* errors holds the one listing failure.                                   *)
C4_CountsMatchListing ==
    \A r \in RunIds : Returned(r) =>
        IF run[r].ended = "list_failed"
        THEN /\ run[r].nListed = 0
             /\ run[r].results.files_copied = 0
             /\ run[r].results.files_skipped = 0
             /\ run[r].results.errors = <<"Failed to list source folder">>
        ELSE /\ Sum(run[r].results) = run[r].nListed
             /\ Len(run[r].results.details) = run[r].nListed

(* A cycle listed two files and returned one copy and one error. *)
C4_Witness ==
    \E r \in RunIds :
        /\ Returned(r)
        /\ run[r].ended = "saved"
        /\ run[r].nListed = 2
        /\ run[r].results.files_copied = 1
        /\ Len(run[r].results.errors) = 1

(* C5: for each listed file, destination metadata absent gives one copy    *)
(* call and status `copied`; present with the size of the source gives no  *)
(* copy call and status `skipped`; present with another size gives one     *)
(* copy call and status `copied (updated)`.  The status is the one of the  *)
(* file's sync_log entry and of its detail, once the copy has succeeded.   *)
C5_DecisionTable ==
    \A r \in RunIds : \A k \in Processed(r) :
        LET h == run[r].hist[k]
            e == run[r].entries[k]
            d == run[r].results.details[k]
            copies == Cardinality(CallsFor(r, "copy", k))
        IN  /\ EntryOf(r, k).status = d.status
            /\ EntryOf(r, k).file_name = e.name
            /\ (h.meta = 409) =>
                  /\ copies = 1
                  /\ h.copy = 200 => d.status = "copied"
            /\ (h.meta = 200 /\ h.size = e.size) =>
                  /\ copies = 0
                  /\ d.status = "skipped"
            /\ (h.meta = 200 /\ h.size # e.size) =>
                  /\ copies = 1
                  /\ h.copy = 200 => d.status = "copied (updated)"

(* A cycle copied one file whose size had changed and skipped the other. *)
C5_Witness ==
    \E r \in RunIds :
        /\ Returned(r)
        /\ Len(run[r].results.details) = 2
        /\ run[r].results.details[1].status = "copied (updated)"
        /\ run[r].results.details[2].status = "skipped"
        /\ run[r].hist[2].size = run[r].entries[2].size

(* What the remote store answered for file k of cycle r. *)
MetadataRaised(r, k) == run[r].hist[k].meta = 0
MetadataFailed(r, k) == run[r].hist[k].meta \notin {200, 409}
SubfolderFailed(r, k) == run[r].hist[k].mkdir \notin {-1, 200, 409}
CopyFailed(r, k) == run[r].hist[k].copy \notin {-1, 200}

(* The file has an `error` entry in sync_log that carries the message. *)
HasErrorEntry(r, k) ==
    /\ run[r].results.details[k].status = "error"
    /\ EntryOf(r, k).status = "error"
    /\ EntryOf(r, k).file_name = run[r].entries[k].name
    /\ EntryOf(r, k).error \in {"request failed", "Copy failed"}
    /\ EntryOf(r, k).error = "Copy failed" <=> run[r].hist[k].copy \notin {-1, 0, 200}

(* Every listed file of a cycle that got to line 417 has its own outcome. *)
BatchCompleted(r) ==
    (Returned(r) /\ run[r].ended = "saved") =>
        /\ Len(run[r].results.details) = Len(run[r].entries)
        /\ Len(run[r].entries) = run[r].nListed

(* C6 as claimed: when the metadata lookup, the subfolder creation or the  *)
(* copy of one listed file fails, that file gets an `error` entry with the *)
(* message, and every other listed file is still processed.                *)
C6_Original ==
    \A r \in RunIds :
        /\ BatchCompleted(r)
        /\ \A k \in Processed(r) :
              (MetadataFailed(r, k) \/ SubfolderFailed(r, k) \/ CopyFailed(r, k))
                  => HasErrorEntry(r, k)

(* C6: a listed file gets an `error` entry with the message exactly when   *)
(* its metadata lookup raises or its copy raises or is answered with a     *)
(* status other than 200; every other listed file of the cycle is still    *)
(* processed and gets its own outcome.  A failed subfolder creation and a  *)
(* metadata answer with an error status are not recorded: the file goes    *)
(* on to the copy, whose outcome decides.                                  *)
C6_FailureIsolated ==
    \A r \in RunIds :
        /\ BatchCompleted(r)
        /\ \A k \in Processed(r) :
              /\ (MetadataRaised(r, k) \/ CopyFailed(r, k)) => HasErrorEntry(r, k)
              /\ run[r].results.details[k].status = "error" =>
                    (MetadataRaised(r, k) \/ CopyFailed(r, k))
              /\ (SubfolderFailed(r, k) \/ (MetadataFailed(r, k) /\ ~MetadataRaised(r, k)))
                    => Cardinality(CallsFor(r, "copy", k)) = 1

(* The copy of the first file was refused, the second file was copied. *)
C6_Witness ==
    \E r \in RunIds :
        /\ Returned(r)
        /\ Len(run[r].results.details) = 2
        /\ run[r].hist[1].copy = 409
        /\ HasErrorEntry(r, 1)
        /\ run[r].results.details[2].status = "copied"

(* C7: when a cursor is stored and list_folder/continue answers 409, the   *)
(* cycle makes exactly one list_folder call for the source folder and no   *)
(* second continue call with the stale cursor; when that listing fails,    *)
(* the cycle ends with it.                                                 *)
C7_OneFallbackListing ==
    \A r \in RunIds : run[r].stale # NoCursor =>
        /\ run[r].stale = run[r].startCursor
        /\ Cardinality(CallsOf(r, "list_folder")) = 1
        /\ \A j \in CallsOf(r, "list_folder") :
              run[r].calls[j].call.path = run[r].source
        /\ Cardinality({j \in CallsOf(r, "continue") :
                            run[r].calls[j].call.cursor = run[r].stale}) = 1
        /\ run[r].ended \in {"not_found", "list_failed"} =>
              /\ Returned(r)
              /\ run[r].calls[Len(run[r].calls)].call.kind = "list_folder"

(* After a 409 on continue, the full listing failed and the cycle ended. *)
C7_Witness ==
    \E r \in RunIds :
        /\ run[r].stale # NoCursor
        /\ Returned(r)
        /\ run[r].ended = "list_failed"
        /\ Len(run[r].calls) = 3

(* C8: when the full listing answers 409 with not_found, run_sync returns  *)
(* files_copied = 0, files_skipped = 0 and errors = [], makes no copy      *)
(* call, and the persisted sync_log and cursor are the ones the cycle      *)
(* started from.                                                           *)
C8_MissingSourceIsNoWork ==
    \A r \in RunIds : run[r].ended = "not_found" =>
        /\ Returned(r)
        /\ run[r].results = EmptyResults
        /\ manual.results = EmptyResults
        /\ manual.status = 200
        /\ CallsOf(r, "copy") = {}
        /\ run[r].calls[Len(run[r].calls)].call.kind = "list_folder"
        /\ file.rs.sync_log = run[r].startLog
        /\ file.rs.last_sync_cursor = run[r].startCursor

(* A cycle that started with a stored cursor found the source folder       *)
(* missing.                                                                *)
C8_Witness ==
    \E r \in RunIds :
        /\ run[r].ended = "not_found"
        /\ run[r].startCursor # NoCursor
        /\ run[r].startLog # <<>>
        /\ manual.pc = "done"

----------------------------------------------------------------------------
(* Spec: the poll loop, the manual trigger, config requests and OCR tasks  *)
(* interleaved at every await.                                             *)

InboxBody == Body({"source_folder"}, FALSE, "/Inbox", "", 0, FALSE)
DefaultSourceBody == Body({"source_folder"}, FALSE, DEFAULT_SOURCE, "", 0, FALSE)
BadDestBody == Body({"source_folder", "dest_folder"}, FALSE, "/Inbox", "no-slash", 0, FALSE)

SpecBodies == {InboxBody, DefaultSourceBody, BadDestBody}

(* The answers of the remote store in Spec: one page per listing, and no   *)
(* server errors or transport exceptions.                                  *)
SpecAnswers(r) ==
    {a \in RemoteAnswers(r, SmallPages) : a.status \in {200, 401, 409} /\ ~a.has_more}

Init ==
    /\ file = Connected([folder |-> DEFAULT_SOURCE, n |-> 0], <<>>)
    /\ trace = FALSE
    /\ InitRest

Next ==
    \/ LoopIterate
    \/ ManualStart
    \/ \E body \in SpecBodies : ConfigRoute(body)
    \/ \E r \in RunIds : \E resp \in SpecAnswers(r) : FirstResponse(r, resp)
    \/ \E r \in RunIds : \E status \in {200, 400} :
          RefreshResponse(r, status, NextToken(tok[r].access_token))
    \/ \E r \in RunIds : \E resp \in SpecAnswers(r) : RetryResponse(r, resp)
    \/ \E task \in ocr : OcrRefreshed(task, NextToken(tok[task.run].access_token))
    \/ \E task \in ocr : \E outcome \in {"text", "empty"} : OcrFinish(task, outcome)

Spec == Init /\ [][Next]_vars

(* A step of remarkable_config that saved: the only step that writes the   *)
(* record and nothing else.                                                *)
ConfigSaved ==
    /\ file' # file
    /\ UNCHANGED <<tok, cfg, req, run, ocr>>

(* C9: in every reachable state, whatever the interleaving of config       *)
(* requests, periodic cycles, manual syncs and OCR completions, a          *)
(* last_sync_cursor in the persisted config was issued by a listing of     *)
(* the source_folder of the same persisted config; a config request that   *)
(* carries source_folder removes the stored cursor.                        *)
C9_CursorOfSourceFolder ==
    /\ [](file.rs.last_sync_cursor # NoCursor =>
            file.rs.last_sync_cursor.folder = file.rs.source_folder)
    /\ [][ConfigSaved => file'.rs.last_sync_cursor = NoCursor]_vars

(* After the source folder was changed, a cycle listed the new folder and  *)
(* its cursor is stored.                                                   *)
C9_Witness ==
    /\ file.rs.source_folder = "/Inbox"
    /\ file.rs.last_sync_cursor # NoCursor
    /\ file.rs.last_sync_cursor.folder = "/Inbox"
    /\ file.rs.last_sync_cursor.n > 0

----------------------------------------------------------------------------
(* SpecLog: periodic cycles, manual syncs and OCR completions on a record  *)
(* whose sync_log is one entry short of MAX_LOG_ENTRIES.                   *)

LogAnswers(r) ==
    {a \in RemoteAnswers(r, SmallPages) : a.status \in {200, 409} /\ ~a.has_more}

InitLog ==
    /\ file = Connected(NoCursor, OldLog(MAX_LOG_ENTRIES - 1))
    /\ trace = TRUE
    /\ InitRest

NextLog ==
    \/ LoopIterate
    \/ ManualStart
    \/ \E r \in RunIds : \E resp \in LogAnswers(r) : FirstResponse(r, resp)
    \/ \E task \in ocr : \E outcome \in {"text", "empty"} : OcrFinish(task, outcome)

SpecLog == InitLog /\ [][NextLog]_vars

(* The positions of a log that hold an entry cycle r added, and those that *)
(* hold an entry of a cycle whose entries were in the log when r started.  *)
AddedBy(r, log) == {j \in 1..Len(log) : log[j].timestamp = r}

KnownAtStart(r, log) ==
    {j \in 1..Len(log) :
        /\ log[j].timestamp # r
        /\ \E m \in 1..Len(run[r].startLog) :
              run[r].startLog[m].timestamp = log[j].timestamp}

NewestFirst(r, log) ==
    \A i \in KnownAtStart(r, log) : \A j \in AddedBy(r, log) : j < i

(* C10: after any sequence of cycles, manual syncs and OCR completions the *)
(* persisted sync_log has at most 50 entries, and the entries a cycle adds *)
(* sit ahead of all the entries that were in the log when the cycle        *)
(* started: the cycle's log is its own entries, newest first, followed by  *)
(* the log it started from, cut at 50.                                     *)
C10_LogBoundedNewestFirst ==
    /\ Len(file.rs.sync_log) <= MAX_LOG_ENTRIES
    /\ \A r \in RunIds : run[r].pc # "unused" =>
          LET log == cfg[r].sync_log
              n == Len(run[r].results.details)
          IN  /\ Len(log) <= MAX_LOG_ENTRIES
              /\ NewestFirst(r, file.rs.sync_log)
              /\ NewestFirst(r, log)
              /\ \A j \in 1..Len(log) :
                    IF j <= n
                    THEN /\ log[j].timestamp = r
                         /\ log[j].file_name = run[r].results.details[n - j + 1].file_name
                    ELSE log[j] = run[r].startLog[j - n]

(* Two cycles each added an entry to a log of 49: the persisted log has 50 *)
(* entries, the two new ones first, and the oldest entry is gone.          *)
C10_Witness ==
    /\ Len(file.rs.sync_log) = MAX_LOG_ENTRIES
    /\ file.rs.sync_log[1].timestamp = 2
    /\ file.rs.sync_log[2].timestamp = 1
    /\ file.rs.sync_log[3].timestamp = 0
    /\ file.rs.sync_log[MAX_LOG_ENTRIES].timestamp = 0

----------------------------------------------------------------------------
(* SpecPlog: OCR tasks write lines to a Progress Log that is missing or    *)
(* one line short of the cap; up to MaxApp calls are in flight at once.    *)

(* The text of a log of n lines, line i being the timestamp and i. *)
LogOfLines(n) ==
    [j \in 1..(3 * n) |-> IF j % 3 = 1 THEN Stamp
                          ELSE IF j % 3 = 2 THEN (j + 1) \div 3 ELSE Newline]

(* The messages of the tasks.  The message of a failed download carries    *)
(* the body of the answer (line 126), which may hold a line break.         *)
OneLineMessage(k) == <<k>>
TwoLineMessage(k) == <<k, Newline, k>>

(* A task calls _append_progress_log (lines 194, 207, 232, 249, 258). *)
LogLine(a, twoLines) ==
    /\ Started(AppIds) < MaxAppends
    /\ LET k == MAX_PROGRESS_LOG_LINES + Started(AppIds)
       IN  AppendProgressLog(a, 0, "",
               IF twoLines THEN TwoLineMessage(k) ELSE OneLineMessage(k))
    /\ UNCHANGED <<file, pkce, tok, cfg, req, route, run, sched, manual, ocr, auth401,
                   trace, readable, asked, clock, calc, plog, job>>

InitPlog ==
    /\ file = Connected(NoCursor, <<>>)
    /\ trace = TRUE
    /\ InitBase
    /\ plog \in {NoLog,
                 [exists |-> TRUE, text |-> LogOfLines(MAX_PROGRESS_LOG_LINES - 1)]}

NextPlog ==
    \/ \E a \in AppIds, twoLines \in BOOLEAN : LogLine(a, twoLines)
    \/ \E a \in AppIds, answered \in BOOLEAN : AppendDownloaded(a, answered)
    \/ \E a \in AppIds, outcome \in UploadOutcomes : AppendUploaded(a, outcome)

SpecPlog == InitPlog /\ [][NextPlog]_vars

LogLines == SplitLines(plog.text)

(* The call `a` stores its text in this step. *)
Stores(a) == app[a].pc = "upload" /\ app'[a].pc = "done" /\ app'[a].stored = "stored"

(* A call that stores its text on a full log drops the oldest line only. *)
C11_DropsOldest ==
    \A a \in AppIds :
        (Stores(a) /\ Len(LogLines) = MAX_PROGRESS_LOG_LINES)
            => SplitLines(plog'.text) = Tail(LogLines) \o SplitLines(NewLine(app[a].message))

(* C11: after any sequence of calls of _append_progress_log the uploaded   *)
(* log has at most MAX_PROGRESS_LOG_LINES lines, and a line appended to a  *)
(* log that has MAX_PROGRESS_LOG_LINES lines drops the oldest one: lines 2 *)
(* to 201 are left when 201 lines are written one after another.           *)
C11_Original ==
    /\ [](Len(LogLines) <= MAX_PROGRESS_LOG_LINES)
    /\ [][C11_DropsOldest]_vars

(* A call that stores its text keeps the lines of the log but for the d    *)
(* oldest ones the cap pushes out.                                         *)
C12_KeepsLines ==
    \A a \in AppIds :
        Stores(a) =>
            LET d == Max(0, Len(LogLines) + 1 - MAX_PROGRESS_LOG_LINES)
            IN  SplitLines(plog'.text) =
                    SubSeq(LogLines, d + 1, Len(LogLines))
                        \o SplitLines(NewLine(app[a].message))

(* C12: every call of _append_progress_log that uploads keeps the lines    *)
(* the remote log already has, in order and but for those the cap pushes   *)
(* out, and puts the new line after them, whatever the download answered   *)
(* and when tasks of different files append at the same time.              *)
C12_Original == [][C12_KeepsLines]_vars

----------------------------------------------------------------------------
(* SpecLoop: the poll loop, manual syncs and config requests that switch   *)
(* the sync on and off and set the poll interval, on a record that is      *)
(* missing or connected and at times cannot be read; the task of the loop  *)
(* may be cancelled.                                                       *)

EnabledBody(b) == Body({"enabled"}, b, "", "", 0, FALSE)
IntervalBody(n) == Body({"poll_interval_seconds"}, FALSE, "", "", n, FALSE)

LoopBodies == {EnabledBody(TRUE), EnabledBody(FALSE), IntervalBody(600)}

(* One page per listing, holding nothing or one file that is no PDF and   *)
(* is found unchanged in the destination; any call may raise.              *)
LoopAnswers(r) ==
    {a \in RemoteAnswers(r, {<<>>, <<FileB>>}) :
        a.status \in {200, 0} /\ ~a.has_more /\ a.size \in {0, FileB.size}}

InitLoop ==
    /\ file \in {EmptyTokens, Connected(NoCursor, <<>>)}
    /\ trace = FALSE
    /\ InitRest

NextLoop ==
    \/ LoopIterate
    \/ ManualStart
    \/ \E body \in LoopBodies : ConfigRoute(body)
    \/ \E r \in RunIds : \E resp \in LoopAnswers(r) : FirstResponse(r, resp)
    \/ \E b \in BOOLEAN : SetReadable(b)
    \/ Cancel

(* Every call of the remote store is answered or ends with an exception:   *)
(* the HTTP client has a timeout.                                          *)
SpecLoop ==
    /\ InitLoop
    /\ [][NextLoop]_vars
    /\ \A r \in RunIds : WF_vars(\E resp \in LoopAnswers(r) : FirstResponse(r, resp))

InFlight(r) == run[r].pc \notin {"unused", "returned", "raised"}
LoopRuns == {r \in RunIds : run[r].caller = "loop" /\ InFlight(r)}

(* The cycle r of the loop returns or raises in this step. *)
LoopRunEnds(r) ==
    /\ run[r].caller = "loop" /\ InFlight(r)
    /\ run'[r].pc \in {"returned", "raised"} /\ run'[r].ended # "cancelled"

(* An iteration in which _load_tokens raises starts in this step. *)
LoadRaises ==
    /\ sched.pc \in {"top", "sleeping"} /\ ~readable
    /\ sched' # sched /\ sched'.pc # "cancelled"

(* The steps of the loop after an exception, and the step that ends it. *)
C13_StillSleeps ==
    /\ (\E r \in RunIds : LoopRunEnds(r)) =>
            /\ sched'.pc = "sleeping"
            /\ sched'.interval = IF readable THEN RereadInterval(file')
                                 ELSE DEFAULT_POLL_INTERVAL
    /\ LoadRaises => sched'.pc = "sleeping" /\ sched'.interval = DEFAULT_POLL_INTERVAL
    /\ (sched.pc # "cancelled" /\ sched'.pc = "cancelled") => Cancel

(* C13: remarkable_sync_loop never ends on its own.  After an iteration in *)
(* which loading the record, run_sync or reading the interval again        *)
(* raises, it sleeps, and from its sleep the next iteration can start; a   *)
(* cycle it awaits is followed by a sleep unless the task is cancelled,    *)
(* and only the cancellation ends the loop.                                *)
C13_LoopNeverEnds ==
    /\ [](sched.pc \in {"top", "running", "sleeping", "cancelled"})
    /\ []((sched.pc = "sleeping" /\ (Unused # {} \/ ~readable)) => ENABLED LoopIterate)
    /\ [][C13_StillSleeps]_vars
    /\ (sched.pc = "running") ~> (sched.pc \in {"sleeping", "cancelled"})

(* The loop sleeps after a cycle that raised, and after an iteration in    *)
(* which the record could not be read.                                     *)
C13_Witness ==
    /\ sched.pc = "sleeping"
    /\ \E r \in RunIds : run[r].caller = "loop" /\ run[r].ended = "raised"
    /\ ~readable

(* A cycle of the loop starts in this step. *)
LoopRunStarts(r) == run[r].pc = "unused" /\ run'[r].caller = "loop"

(* What holds when a cycle of the loop starts. *)
C14_StartGuarded ==
    \A r \in RunIds :
        LoopRunStarts(r) =>
            /\ LoopRuns = {}
            /\ sched.pc \in {"top", "sleeping"}
            /\ readable /\ file.exists
            /\ file.rs.enabled
            /\ file.access_token # 0

(* C14: the scheduler starts a cycle only when its previous cycle has      *)
(* returned, so at most one cycle started by the scheduler is in flight,   *)
(* and only when the record read at the start of the iteration has         *)
(* enabled = true and a non-empty access_token.                            *)
C14_OneGuardedCycle ==
    /\ [](Cardinality(LoopRuns) <= 1)
    /\ [](LoopRuns # {} => sched.pc = "running" /\ LoopRuns = {sched.run})
    /\ [][C14_StartGuarded]_vars

(* The second cycle of the loop is in flight; the first one has returned.  *)
C14_Witness ==
    /\ \A r \in RunIds : run[r].caller = "loop"
    /\ Cardinality(LoopRuns) = 1
    /\ \E r \in RunIds : run[r].pc = "returned"

(* The sleep that follows a cycle uses the interval stored last. *)
C15_NextSleep ==
    (sched.pc = "running" /\ sched'.pc = "sleeping" /\ readable /\ asked # 0)
        => sched'.interval = asked

(* C15: the poll interval a config request stored before the sleep of the  *)
(* loop begins, also while the cycle is running, is the interval of the    *)
(* very next sleep.                                                        *)
C15_Original == [][C15_NextSleep]_vars

(* The cycle r saves its record in this step (line 417). *)
Saves(r) == InFlight(r) /\ run'[r].ended = "saved"

(* The entries of a log that cycle r did not add. *)
Foreign(log, r) == SelectSeq(log, LAMBDA e : e.timestamp # r)

IsSuffix(a, b) == Len(a) <= Len(b) /\ a = SubSeq(b, Len(b) - Len(a) + 1, Len(b))
IsPrefix(a, b) == Len(a) <= Len(b) /\ a = SubSeq(b, 1, Len(a))

(* The snapshot of a cycle in flight: its config dict keeps the settings   *)
(* and the entries of other cycles it was loaded with, and gets the        *)
(* entries of the cycle itself in front.                                   *)
SnapshotKept(r) ==
    (InFlight(r) /\ run'[r].pc # "unused") =>
        /\ [cfg'[r] EXCEPT !.sync_log = <<>>, !.last_sync_cursor = NoCursor]
             = [cfg[r] EXCEPT !.sync_log = <<>>, !.last_sync_cursor = NoCursor]
        /\ IsPrefix(Foreign(cfg'[r].sync_log, r), Foreign(cfg[r].sync_log, r))
        /\ IsSuffix(Foreign(cfg'[r].sync_log, r), cfg'[r].sync_log)

(* A save of a cycle writes the snapshot of that cycle. *)
C16_SnapshotSaved ==
    \A r \in RunIds :
        /\ SnapshotKept(r)
        /\ Saves(r) =>
              file' = [exists |-> TRUE, access_token |-> tok[r].access_token,
                       refresh_token |-> tok[r].refresh_token,
                       rs |-> [cfg'[r] EXCEPT !.present = TRUE]]

(* C16: a manual sync and a cycle of the loop can be in flight together,   *)
(* and when both write, the persisted record is the whole snapshot of the  *)
(* one that saved last: the log entries, the cursor and the config changes *)
(* of the other writer are not merged into it.                             *)
C16_LastWriterWins == [][C16_SnapshotSaved]_vars

(* A manual sync and a cycle of the loop have both saved; the record is    *)
(* the snapshot of one of them and holds no entry of the other, which had  *)
(* added one.                                                              *)
C16_Witness ==
    \E r, q \in RunIds :
        /\ run[r].caller # run[q].caller
        /\ run[r].ended = "saved" /\ run[q].ended = "saved"
        /\ \E i \in 1..Len(cfg[q].sync_log) : cfg[q].sync_log[i].timestamp = q
        /\ file.rs = [cfg[r] EXCEPT !.present = TRUE]
        /\ \A i \in 1..Len(file.rs.sync_log) : file.rs.sync_log[i].timestamp # q

----------------------------------------------------------------------------
(* SpecSpawn: manual syncs list PDF files with a lower-case and an         *)
(* upper-case extension and a file that is no PDF, while config requests   *)
(* switch ocr_enabled; no OCR task finishes.                               *)

OcrBody(b) == Body({"ocr_enabled"}, FALSE, "", "", 0, b)

SpawnPages == {<<FileA>>, <<FileC, FileB>>}

SpawnAnswers(r) ==
    {a \in RemoteAnswers(r, SpawnPages) : a.status \in {200, 409, 0} /\ ~a.has_more}

InitSpawn ==
    /\ file = Connected(NoCursor, <<>>)
    /\ trace = FALSE
    /\ InitRest

NextSpawn ==
    \/ ManualStart
    \/ \E b \in BOOLEAN : ConfigRoute(OcrBody(b))
    \/ \E r \in RunIds : \E resp \in SpawnAnswers(r) : FirstResponse(r, resp)

SpecSpawn == InitSpawn /\ [][NextSpawn]_vars

(* The task run_sync creates for file k of cycle r. *)
TaskOf(r, k) ==
    [run |-> r, dest_path |-> DestPath(run[r], run[r].entries[k]), now |-> r]

(* C17: run_sync schedules an OCR task for a listed file exactly when the  *)
(* file was copied in this cycle (`copied` or `copied (updated)`), its     *)
(* name ends in .pdf in any case of the letters, and ocr_enabled of the    *)
(* cycle's config is true; never for a skipped or failed file.             *)
C17_OcrScheduledForCopiedPdf ==
    /\ \A r \in RunIds : \A k \in Processed(r) :
          TaskOf(r, k) \in ocr <=>
              /\ run[r].results.details[k].status \in {"copied", "copied (updated)"}
              /\ run[r].entries[k].name \in {"a.pdf", "C.PDF"}
              /\ cfg[r].ocr_enabled
    /\ \A task \in ocr : \E k \in Processed(task.run) : task = TaskOf(task.run, k)

(* One cycle copied the PDF with the upper-case extension and the other    *)
(* file and scheduled OCR for the PDF only; another cycle, loaded while    *)
(* ocr_enabled was false, copied a PDF and scheduled nothing.              *)
C17_Witness ==
    \E r, q \in RunIds :
        /\ Returned(r) /\ Returned(q)
        /\ Len(run[r].results.details) = 2
        /\ run[r].entries[1].name = "C.PDF"
        /\ \A k \in 1..2 : run[r].results.details[k].status \in {"copied", "copied (updated)"}
        /\ Cardinality({t \in ocr : t.run = r}) = 1
        /\ ~cfg[q].ocr_enabled
        /\ run[q].results.files_copied = 1
        /\ {t \in ocr : t.run = q} = {}

----------------------------------------------------------------------------
(* SpecOcr: one manual sync copies a PDF, and the OCR task it creates runs *)
(* step by step while the remote store fails the downloads and uploads of  *)
(* the task and of its Progress Log lines, and the save of the record may  *)
(* fail.                                                                   *)

OcrAnswers(r) ==
    {a \in RemoteAnswers(r, {<<FileA>>}) : a.status \in {200, 409} /\ ~a.has_more}

InitOcr ==
    /\ file = Connected(NoCursor, <<>>)
    /\ trace = FALSE
    /\ InitRest

(* The one sync of the behaviour. *)
OneSync == ManualStart /\ \A r \in RunIds : run[r].pc = "unused"

NextOcr ==
    \/ OneSync
    \/ \E r \in RunIds : \E resp \in OcrAnswers(r) : FirstResponse(r, resp)
    \/ \E task \in ocr, a \in AppIds : JobStart(task, a)
    \/ \E r \in RunIds, a \in AppIds, saved \in BOOLEAN : JobLogged(r, a, saved)
    \/ \E r \in RunIds, a \in AppIds, ok \in BOOLEAN : JobDownloaded(r, a, ok)
    \/ \E r \in RunIds : JobRecogniseLine(r)
    \/ \E r \in RunIds, a \in AppIds : JobMilestone(r, a)
    \/ \E r \in RunIds, timeout \in BOOLEAN : JobMilestoneOver(r, timeout)
    \/ \E r \in RunIds, a \in AppIds, why \in {"corrupt", "recognition", "blank"} :
          JobNoText(r, a, why)
    \/ \E r \in RunIds : JobRecognised(r)
    \/ \E r \in RunIds, a \in AppIds, outcome \in UploadOutcomes : JobUploaded(r, a, outcome)
    \/ \E a \in AppIds, answered \in BOOLEAN : AppendDownloaded(a, answered)
    \/ \E a \in AppIds, outcome \in UploadOutcomes : AppendUploaded(a, outcome)

SpecOcr == InitOcr /\ [][NextOcr]_vars

Statuses(log) == [i \in 1..Len(log) |-> log[i].status]

HasKind(msgs, kind) == \E i \in 1..Len(msgs) : msgs[i] = kind

(* A step of the OCR task of cycle r. *)
JobStep(r) == job'[r] # job[r]

(* No step of an OCR task changes the cycle, its result or a status. *)
C18_CycleUntouched ==
    \A r \in RunIds :
        JobStep(r) =>
            /\ run' = run /\ manual' = manual /\ req' = req
            /\ Statuses(cfg'[r].sync_log) = Statuses(cfg[r].sync_log)
            /\ (file' # file => Statuses(file'.rs.sync_log) = Statuses(cfg[r].sync_log))

(* C18: whatever fails inside an OCR task (the download, the recognition,  *)
(* the upload of the text, the log writes, the save of the config),        *)
(* _run_ocr_for_file returns normally, run_sync returns without waiting    *)
(* for the task, and the result and the sync_log statuses of the cycle are *)
(* those of a cycle whose OCR succeeded: no step of the task changes them. *)
C18_OcrFailureContained ==
    /\ [](\A r \in RunIds : job[r].pc # "crashed")
    /\ [](\A r \in RunIds : \A k \in Processed(r) :
             EntryOf(r, k).status = run[r].results.details[k].status)
    /\ [][C18_CycleUntouched]_vars

(* The sync answered 200 with one file copied; the download of its OCR     *)
(* task failed and the task has returned.                                  *)
C18_Witness ==
    \E r \in RunIds :
        /\ Returned(r) /\ manual.pc = "done" /\ manual.status = 200
        /\ manual.results.files_copied = 1
        /\ EntryOf(r, 1).status \in {"copied", "copied (updated)"}
        /\ job[r].pc = "done" /\ job[r].failure = "download"

(* C19: every failure of an OCR task (download failure, corrupt artifact,  *)
(* recognition exception) writes an `error` line to the Progress Log and   *)
(* never a `completed` line.                                               *)
C19_Original ==
    \A r \in RunIds :
        (job[r].pc = "done" /\ job[r].failure \in {"download", "corrupt", "recognition"})
            => /\ HasKind(job[r].msgs, "error")
               /\ ~HasKind(job[r].msgs, "completed")
               /\ ~HasKind(job[r].msgs, "no text")

(* The task goes on in the same way whatever a log write did. *)
C20_WritesDoNotDivert ==
    \A r \in RunIds :
        /\ (job[r].pc = "log" /\ job[r].then = "download" /\ JobStep(r))
              => job'[r].pc = "download"
        /\ (job[r].pc = "log" /\ job[r].then = "save" /\ JobStep(r))
              => job'[r].marked \/ job'[r].failure = "save"
        /\ (job[r].wait # 0 /\ JobStep(r))
              => job'[r] = [job[r] EXCEPT !.wait = 0, !.timeouts = job'[r].timeouts]

(* C20: when the writes of the Progress Log fail or time out, the OCR task *)
(* still recognises all lines, uploads the text file and updates the       *)
(* SyncLogEntry; _append_progress_log never raises, whatever its download  *)
(* and its upload do.                                                      *)
C20_LogFailuresHarmless ==
    /\ [](\A a \in AppIds : app[a].pc # "raised")
    /\ [](\A r \in RunIds :
             (job[r].pc = "done" /\ job[r].failure = "" /\ job[r].uploaded # "")
                => /\ job[r].lines_done = MaxLines
                   /\ job[r].marked
                   /\ \E i \in 1..Len(cfg[r].sync_log) :
                         cfg[r].sync_log[i].ocr_status = "completed")
    /\ [][C20_WritesDoNotDivert]_vars

(* No write of the Progress Log got through, one milestone write timed     *)
(* out, and the task recognised all lines, uploaded the text and marked    *)
(* the entry in the record.                                                *)
C20_Witness ==
    \E r \in RunIds :
        /\ job[r].pc = "done" /\ job[r].marked /\ job[r].uploaded = "stored"
        /\ job[r].lines_done = MaxLines
        /\ job[r].msgs = <<"started", "25%", "50%", "75%", "completed">>
        /\ job[r].timeouts > 0
        /\ plog = NoLog
        /\ \E i \in 1..Len(file.rs.sync_log) : file.rs.sync_log[i].ocr_status = "completed"

----------------------------------------------------------------------------
(* progress_callback under any reports: one sync copies a.pdf, its OCR     *)
(* task starts and downloads the PDF, and the worker then calls            *)
(* progress_callback with any (lines_done, total_lines), in any order and  *)
(* any number of times, while the log writes answer, fail or time out.     *)

ProgressAnswers(r) == {a \in OcrAnswers(r) : a.status = 200}

NextProgress ==
    \/ OneSync
    \/ \E r \in RunIds : \E resp \in ProgressAnswers(r) : FirstResponse(r, resp)
    \/ \E task \in ocr, a \in AppIds : JobStart(task, a)
    \/ \E r \in RunIds, a \in AppIds : JobLogged(r, a, TRUE)
    \/ \E r \in RunIds, a \in AppIds : JobDownloaded(r, a, TRUE)
    \/ \E r \in RunIds, lines_done \in 0..MaxLines, total_lines \in 0..MaxLines :
          ProgressReport(r, lines_done, total_lines)
    \/ \E r \in RunIds, a \in AppIds : JobMilestone(r, a)
    \/ \E r \in RunIds, timeout \in BOOLEAN : JobMilestoneOver(r, timeout)
    \/ \E a \in AppIds, answered \in BOOLEAN : AppendDownloaded(a, answered)
    \/ \E a \in AppIds, outcome \in UploadOutcomes : AppendUploaded(a, outcome)

SpecProgress == InitOcr /\ [][NextProgress]_vars

Times(msgs, kind) == Cardinality({i \in 1..Len(msgs) : msgs[i] = kind})

(* A milestone line is handed to _append_progress_log only inside a call   *)
(* whose total_lines is positive.                                          *)
C21_WrittenOnlyWithTotal ==
    \A r \in RunIds :
        (job[r].pc = "recognise" /\ job'[r].msgs # job[r].msgs)
            => job[r].total_lines > 0

(* C21: during one OCR task each of the 25%, 50% and 75% milestone lines   *)
(* is written at most once, whatever sequence of (lines_done, total_lines) *)
(* reports the worker makes, and none is written when total_lines is 0.    *)
C21_MilestonesOnce ==
    /\ [](\A r \in RunIds : \A kind \in {"25%", "50%", "75%"} :
             Times(job[r].msgs, kind) <= 1)
    /\ [](\A r \in RunIds : job[r].total_lines = 0 => Pending(job[r]) = {})
    /\ [][C21_WrittenOnlyWithTotal]_vars

(* All three milestones were written once, and the worker has since        *)
(* reported a full count over a total of 0 lines.                          *)
C21_Witness ==
    \E r \in RunIds :
        /\ job[r].pc = "recognise" /\ job[r].wait = 0
        /\ job[r].msgs = <<"started", "25%", "50%", "75%">>
        /\ job[r].lines_done = MaxLines /\ job[r].total_lines = 0

----------------------------------------------------------------------------
(* The OCR task of a file that an earlier cycle of the same day has        *)
(* already copied to the same destination path: sync_log holds the entry   *)
(* of that copy, with the same dest_path and an earlier timestamp.         *)

EarlierCopy ==
    [timestamp |-> 0, file_name |-> FileA.name,
     dest_path |-> [folder |-> DEFAULT_DEST, notebook |-> <<"a">>,
                    bucket |-> DailyPeriodic(Epoch), name |-> FileA.name],
     status |-> "copied", size_bytes |-> 2, error |-> "", ocr_status |-> ""]

InitMark ==
    /\ file = Connected(NoCursor, <<EarlierCopy>>)
    /\ trace = FALSE
    /\ InitRest

SpecMark == InitMark /\ [][NextOcr]_vars

(* The entries of a sync_log that carry the OCR fields. *)
Marked(log) == {i \in 1..Len(log) : log[i].ocr_status = "completed"}

(* The entries of the config of cycle r that match its OCR task. *)
Matching(r) ==
    {i \in 1..Len(cfg[r].sync_log) :
        /\ cfg[r].sync_log[i].dest_path = DestPath(run[r], FileA)
        /\ cfg[r].sync_log[i].timestamp = r}

(* C22 as claimed: the task uploads the text file and sets the OCR fields  *)
(* on the matching entry if and only if the recognised text is not empty.  *)
C22_Original ==
    \A r \in RunIds :
        job[r].pc = "done" =>
            ((job[r].uploaded = "stored" /\ Marked(cfg[r].sync_log) # {})
                <=> job[r].text # <<>>)

(* C22: an OCR task issues the upload of the sibling text file if and only *)
(* if the recognised text holds a character that is not white space; if    *)
(* that upload returns, the task sets the OCR fields on the first          *)
(* SyncLogEntry of its config whose dest_path and timestamp match, on that *)
(* one entry only; if the text is blank or the upload raises, no upload    *)
(* follows and no entry is changed.                                        *)
C22_TextFileAndEntry ==
    \A r \in RunIds :
        job[r].pc = "done" =>
            /\ job[r].uploaded # "" <=> StripText(job[r].text) # <<>>
            /\ job[r].uploaded # "" => job[r].txt_name = <<"a", ".", "t", "x", "t">>
            /\ job[r].uploaded \in {"stored", "refused"} =>
                   /\ Matching(r) # {}
                   /\ Marked(cfg[r].sync_log) =
                          {CHOOSE i \in Matching(r) : \A k \in Matching(r) : i <= k}
            /\ job[r].uploaded \in {"", "raised"} => Marked(cfg[r].sync_log) = {}

(* The text was uploaded and the entry of this cycle carries the OCR       *)
(* fields, while the entry of the earlier copy of the same path does not.  *)
C22_Witness ==
    \E r \in RunIds :
        /\ job[r].pc = "done" /\ job[r].uploaded = "stored"
        /\ Len(cfg[r].sync_log) = 2
        /\ cfg[r].sync_log[2] = EarlierCopy
        /\ cfg[r].sync_log[1].ocr_status = "completed"

----------------------------------------------------------------------------
(* _daily_periodic on every day of MaxYears years. *)

progvars ==
    <<file, pkce, tok, cfg, req, route, run, sched, manual, ocr, auth401, trace,
      readable, asked, plogvars, clock>>

Years == 2025..(2024 + MaxYears)

Dates ==
    {dt \in [year : Years, month : 1..12, day : 1..31] :
        dt.day <= DaysInMonth(dt.year, dt.month)}

InitBucket ==
    /\ file = EmptyTokens /\ trace = FALSE /\ plog = NoLog /\ clock = Epoch
    /\ InitCore
    /\ calc \in {[NoCalc EXCEPT !.pc = "called", !.arg = dt] : dt \in Dates}

(* Lines 68-71: _daily_periodic(dt) returns. *)
DailyPeriodicReturns ==
    /\ calc.pc = "called"
    /\ calc' = [calc EXCEPT !.pc = "returned", !.out = DailyPeriodic(calc.arg)]
    /\ UNCHANGED progvars

SpecBucket == InitBucket /\ [][DailyPeriodicReturns]_vars

(* The number that a sequence of decimal digits writes. *)
RECURSIVE Number(_)
Number(digits) ==
    IF digits = <<>> THEN 0
    ELSE 10 * Number(SubSeq(digits, 1, Len(digits) - 1))
            + (CHOOSE n \in 0..9 : Digit(n) = digits[Len(digits)])

(* The day of the week, 0 for Monday, counted from the Sunday of Epoch. *)
DayOfWeek(dt) == (ToOrdinal(dt) - ToOrdinal(Epoch) + 6) % 7

NewYear(year) == ToOrdinal([year |-> year, month |-> 1, day |-> 1])

(* ISO 8601: the weeks start on Monday, a week belongs to the year that    *)
(* holds its Thursday, and week 01 is the week of the year's first         *)
(* Thursday.                                                               *)
Iso8601Week(dt) ==
    LET monday == ToOrdinal(dt) - DayOfWeek(dt)
        thursday == monday + 3
        year == IF thursday < NewYear(dt.year) THEN dt.year - 1
                ELSE IF thursday >= NewYear(dt.year + 1) THEN dt.year + 1
                ELSE dt.year
    IN  (thursday - NewYear(year)) \div 7 + 1

----------------------------------------------------------------------------
(* _extract_notebook_name on every file name of at most MaxName parts, and *)
(* on the notebook name it returned.                                       *)

NameParts ==
    {<<"~">>, <<" ">>, <<"a">>, <<".">>, <<"(">>, <<")">>, <<"1">>, <<"-">>,
     <<"p", "a", "g", "e">>}

RECURSIVE Flatten(_)
Flatten(parts) == IF parts = <<>> THEN <<>> ELSE Head(parts) \o Flatten(Tail(parts))

FileNames == {Flatten(parts) : parts \in UNION {[1..n -> NameParts] : n \in 0..MaxName}}

InitName ==
    /\ file = EmptyTokens /\ trace = FALSE /\ plog = NoLog /\ clock = Epoch
    /\ InitCore
    /\ calc \in {[NoCalc EXCEPT !.pc = "called", !.arg = name] : name \in FileNames}

(* Lines 47-65: _extract_notebook_name(file_name) returns. *)
ExtractReturns ==
    /\ calc.pc = "called"
    /\ calc' = [calc EXCEPT !.pc = "returned", !.out = ExtractNotebookName(calc.arg)]
    /\ UNCHANGED progvars

(* _extract_notebook_name is called on the name it returned. *)
ExtractAgain ==
    /\ calc.pc = "returned"
    /\ calc' = [calc EXCEPT !.pc = "again", !.again = ExtractNotebookName(calc.out)]
    /\ UNCHANGED progvars

NextName == ExtractReturns \/ ExtractAgain

SpecName == InitName /\ [][NextName]_vars

(* C24 as claimed: extract_notebook_name is total and idempotent:          *)
(* extract_notebook_name(extract_notebook_name(f)) =                       *)
(* extract_notebook_name(f) for every file name f.                         *)
C24_Original == calc.pc = "again" => calc.again = calc.out

(* A notebook name without a dot, a parenthesis, a dash or a tilde. *)
Plain(name) == \A i \in 1..Len(name) : name[i] \notin {".", "(", ")", "-", "~"}

(* C24: extract_notebook_name is total (it returns a string, no longer     *)
(* than the file name and without white space at its ends, for every file  *)
(* name), and extract_notebook_name(extract_notebook_name(f)) =            *)
(* extract_notebook_name(f) for every file name f whose notebook name      *)
(* holds no dot, parenthesis, dash or tilde.                               *)
C24_TotalAndIdempotentOnPlain ==
    /\ calc.pc \in {"returned", "again"} =>
           /\ calc.out \in Seq({calc.arg[i] : i \in 1..Len(calc.arg)})
           /\ Len(calc.out) <= Len(calc.arg)
           /\ Strip(calc.out) = calc.out
    /\ (calc.pc = "again" /\ Plain(calc.out)) => calc.again = calc.out

(* `a(1)` gave the notebook `a`, and `a` gave `a` again. *)
C24_Witness ==
    /\ calc.pc = "again"
    /\ calc.arg = <<"a", "(", "1", ")">>
    /\ calc.out = <<"a">> /\ calc.again = <<"a">>

----------------------------------------------------------------------------
(* SpecPath: manual syncs list two files of two notebooks on New Year's    *)
(* Eve, while midnight may pass at any moment of a cycle.                  *)

NewYearsEve == [year |-> 2026, month |-> 12, day |-> 31]

(* The date after dt. *)
NextDay(dt) ==
    IF dt.day < DaysInMonth(dt.year, dt.month) THEN [dt EXCEPT !.day = @ + 1]
    ELSE IF dt.month < 12 THEN [dt EXCEPT !.month = @ + 1, !.day = 1]
    ELSE [year |-> dt.year + 1, month |-> 1, day |-> 1]

(* Midnight passes: datetime.now(timezone.utc) is on the next day. *)
Tick ==
    /\ ToOrdinal(clock) < ToOrdinal(NewYearsEve) + MaxTicks
    /\ clock' = NextDay(clock)
    /\ UNCHANGED <<file, pkce, tok, cfg, req, route, run, sched, manual, ocr, auth401,
                   trace, readable, asked, plogvars, calc>>

PathAnswers(r) ==
    {a \in RemoteAnswers(r, {<<FileF, FileB>>}) : a.status # 401 /\ ~a.has_more}

InitPath ==
    /\ file = Connected(NoCursor, <<>>) /\ trace = FALSE /\ plog = NoLog
    /\ clock = NewYearsEve /\ calc = NoCalc
    /\ InitCore

NextPath ==
    \/ ManualStart
    \/ \E r \in RunIds : \E resp \in PathAnswers(r) : FirstResponse(r, resp)
    \/ Tick

SpecPath == InitPath /\ [][NextPath]_vars

InLoop(l) == l.pc \in {"meta", "mkdir", "copy"}

(* The bucket is computed when the for loop is reached and stays what it   *)
(* is for the rest of the cycle.                                           *)
C23_OneBucket ==
    \A r \in RunIds :
        /\ (~InLoop(run[r]) /\ InLoop(run'[r])) => run'[r].daily = DailyPeriodic(clock)
        /\ InLoop(run[r]) => run'[r].daily = run[r].daily

(* A copy is sent from the entry's path to dest_folder/notebook/bucket/name *)
(* right after the answer to the create_folder of its subfolder.           *)
C23_CopyIssued ==
    \A r \in RunIds :
        (req'[r].call.kind = "copy" /\ req[r].call.kind # "copy") =>
            LET e == run[r].entries[run[r].i]
                copy == req'[r].call
                mkdir == req[r].call
            IN  /\ copy.from_path = e.path_display
                /\ copy.path = cfg[r].dest_folder /\ copy.name = e.name
                /\ copy.notebook = ExtractNotebookName(Chars(e.name))
                /\ copy.bucket = run[r].daily
                /\ mkdir.kind = "create_folder" /\ mkdir.name = ""
                /\ mkdir.path = copy.path /\ mkdir.notebook = copy.notebook
                /\ mkdir.bucket = copy.bucket

(* C23: every copy issued by run_sync has from_path = the listed entry's   *)
(* path and to_path = dest_folder/notebook/bucket/name with notebook =     *)
(* extract_notebook_name(name) and bucket = daily_bucket of one timestamp  *)
(* taken once per cycle, so all files of one cycle share the same bucket   *)
(* and log timestamp; the subfolder dest_folder/notebook/bucket is created *)
(* before the copy.                                                        *)
C23_CopyPaths ==
    /\ [][C23_OneBucket]_vars
    /\ [][C23_CopyIssued]_vars
    /\ [](\A r \in RunIds : \A i \in 1..Len(cfg[r].sync_log) :
             cfg[r].sync_log[i].timestamp = r
                => cfg[r].sync_log[i].dest_path.bucket = run[r].daily)

(* Midnight has passed during the cycle: the copy of the second file goes  *)
(* to the bucket of New Year's Eve, as that of the first file did.         *)
C23_Witness ==
    \E r \in RunIds :
        /\ run[r].pc = "copy" /\ run[r].i = 2 /\ clock # NewYearsEve
        /\ req[r].call.kind = "copy" /\ req[r].call.from_path = "/In/b.png"
        /\ req[r].call.notebook = <<"b">>
        /\ req[r].call.bucket = <<"2", "0", "2", "6", "-", "1", "2", "-", "3", "1", "-",
                                  "W", "5", "3", "-", "T", "h", "u">>
        /\ Len(cfg[r].sync_log) = 1
        /\ cfg[r].sync_log[1].dest_path.notebook = <<"f", "o", "c", "u", "s">>
        /\ cfg[r].sync_log[1].dest_path.bucket = req[r].call.bucket

----------------------------------------------------------------------------
(* SpecConfig: config requests with folders that do and do not start with  *)
(* `/` and with poll intervals below and above 60 seconds, while the poll  *)
(* loop runs cycles and sleeps.                                            *)

ConfigBodies ==
    {Body({"enabled", "source_folder", "poll_interval_seconds"}, FALSE, "Inbox", "", 90, FALSE),
     Body({"dest_folder", "poll_interval_seconds", "ocr_enabled"}, FALSE, "", "no-slash", 30,
          FALSE),
     Body({"source_folder", "dest_folder"}, FALSE, "/Inbox", "/Dest", 0, FALSE),
     EnabledBody(TRUE), IntervalBody(30), IntervalBody(0), IntervalBody(-5),
     IntervalBody(90)}

BadFolder(body) ==
    \/ "source_folder" \in body.has /\ body.source_folder \in {"Inbox", "no-slash", ""}
    \/ "dest_folder" \in body.has /\ body.dest_folder \in {"Inbox", "no-slash", ""}

InitConfig ==
    /\ file \in {EmptyTokens, Connected(NoCursor, <<>>)}
    /\ trace = FALSE
    /\ InitRest

NextConfig ==
    \/ LoopIterate
    \/ \E body \in ConfigBodies : ConfigRoute(body)
    \/ \E r \in RunIds : \E resp \in LoopAnswers(r) : FirstResponse(r, resp)

SpecConfig == InitConfig /\ [][NextConfig]_vars

(* The status remarkable_config answers a body with. *)
ConfigStatus(body) == ConfigMutation(GetRemarkableConfig(LoadTokens), body).status

C26_RecordKept ==
    \A body \in ConfigBodies : (BadFolder(body) /\ ConfigRoute(body)) => file' = file

(* C26: a config mutation whose source_folder or dest_folder does not      *)
(* start with `/` is rejected with status 400 and leaves the whole         *)
(* persisted SyncConfig unchanged, including the other fields sent in the  *)
(* same request.                                                           *)
C26_BadFolderRejected ==
    /\ [](\A body \in ConfigBodies : ConfigStatus(body) = 400 <=> BadFolder(body))
    /\ [][C26_RecordKept]_vars

(* Requests with a bad folder, one of them with `enabled` false and an     *)
(* interval of 90 seconds, were answered; the record holds `enabled` true  *)
(* and another interval.                                                   *)
C26_Witness ==
    /\ file.exists /\ file.rs.present /\ file.rs.enabled
    /\ file.rs.source_folder = DEFAULT_SOURCE
    /\ file.rs.poll_interval_seconds = 60
    /\ sched.pc = "sleeping"

(* C27: after any sequence of config mutations the persisted               *)
(* poll_interval_seconds is at least 60 (a smaller requested value is      *)
(* stored as 60), and the scheduler never sleeps for less than 60 seconds  *)
(* between two cycles.                                                     *)
C27_IntervalFloor ==
    /\ file.exists => file.rs.poll_interval_seconds >= 60
    /\ asked # 0 => asked >= 60
    /\ sched.pc = "sleeping" => sched.interval >= 60

(* A request for 30 seconds was stored as 60, and the loop sleeps for 60   *)
(* seconds after a cycle.                                                  *)
C27_Witness ==
    /\ asked = 60 /\ file.rs.poll_interval_seconds = 60
    /\ sched.pc = "sleeping" /\ sched.interval = 60
    /\ \E r \in RunIds : Returned(r)

----------------------------------------------------------------------------
(* SpecAuth: requests on the routes of /api/dropbox and /api/remarkable,   *)
(* with and without a session.                                             *)

RouteNames ==
    {"/api/dropbox/auth", "/api/dropbox/callback", "/api/dropbox/status",
     "/api/dropbox/files", "/api/dropbox/read", "/api/dropbox/write",
     "/api/dropbox/metadata", "/api/dropbox/disconnect", "/api/dropbox/config",
     "/api/remarkable/status", "/api/remarkable/config", "/api/remarkable/sync",
     "/api/remarkable/log", "/api/remarkable/ocr"}

(* The session cookie of a request: absent, or a token that carries the    *)
(* signature of SECRET_KEY or not, and a signed one younger than           *)
(* COOKIE_MAX_AGE or not.                                                  *)
Cookies ==
    {c \in [present : BOOLEAN, signed : BOOLEAN, fresh : BOOLEAN] :
        /\ ~c.present => ~c.signed
        /\ ~c.signed => ~c.fresh}

(* The cookie create_session_cookie has set, within its max_age. *)
SessionCookie == [present |-> TRUE, signed |-> TRUE, fresh |-> TRUE]

(* is_authenticated that trusts any cookie it is given. *)
IsAuthenticatedUnverified(cookie) == cookie.present

(* is_authenticated: loads raises BadSignature or SignatureExpired; the    *)
(* payload of a signed token is {"authenticated": True}.                   *)
IsAuthenticated(cookie) ==
    IF ~cookie.present THEN FALSE
    ELSE IF ~cookie.signed \/ ~cookie.fresh THEN FALSE
    ELSE TRUE

(* _require_auth: the status of the response it returns, 0 for None. *)
RequireAuth(cookie) == IF ~IsAuthenticated(cookie) THEN 401 ELSE 0

(* `return auth_check`: the response is all the request leaves behind. *)
Rejected(name, status) ==
    /\ calc' = [pc |-> "returned", arg |-> <<name>>, out |-> <<status>>, again |-> <<>>]
    /\ UNCHANGED progvars

(* dropbox_status, remarkable_status and remarkable_log read the record    *)
(* and answer from it.                                                     *)
ReadRoute(name) ==
    /\ calc' = [pc |-> "returned", arg |-> <<name>>, out |-> <<200>>, again |-> <<>>]
    /\ UNCHANGED progvars

(* save_config of /api/dropbox: the record is loaded, three keys the       *)
(* model does not hold are set, and the record is saved.                   *)
SaveConfig ==
    /\ file' = [LoadTokens EXCEPT !.exists = TRUE]
    /\ UNCHANGED <<pkce, tok, cfg, req, route, run, sched, manual, ocr, auth401, trace,
                   readable, asked, clock, calc, plogvars>>

(* The request bodies of POST /api/remarkable/config in SpecAuth. *)
AuthBodies == {Body({"enabled", "poll_interval_seconds"}, TRUE, "", "", 90, FALSE)}

(* The body of a handler below its first three lines.  The handlers that   *)
(* load the record and await a request to the remote store are started     *)
(* as file_metadata is.                                                    *)
Handler(name) ==
    CASE name = "/api/dropbox/auth" -> InitiateAuth
      [] name = "/api/dropbox/callback" ->
            \E status \in {200, 400}, b \in BOOLEAN : OAuthCallback(status, 1, b)
      [] name \in {"/api/dropbox/status", "/api/remarkable/status", "/api/remarkable/log"} ->
            ReadRoute(name)
      [] name \in {"/api/dropbox/files", "/api/dropbox/read", "/api/dropbox/write",
                   "/api/dropbox/metadata", "/api/remarkable/ocr"} -> RouteStart
      [] name = "/api/dropbox/disconnect" -> Disconnect
      [] name = "/api/dropbox/config" -> SaveConfig
      [] name = "/api/remarkable/config" -> \E body \in AuthBodies : ConfigRoute(body)
      [] name = "/api/remarkable/sync" -> ManualStart

(* A request on a route: `auth_check = _require_auth(request)`, then       *)
(* `if auth_check: return auth_check`, then the handler.                   *)
Request(name, cookie) ==
    IF RequireAuth(cookie) # 0
    THEN Rejected(name, RequireAuth(cookie))
    ELSE Handler(name)

InitAuth == file = EmptyTokens /\ trace = FALSE /\ InitRest

NextAuth == \E name \in RouteNames, cookie \in Cookies : Request(name, cookie)

SpecAuth == InitAuth /\ [][NextAuth]_vars

(* A request that carries no session cookie issued by the application. *)
Unauthenticated(name, cookie) == cookie # SessionCookie /\ Request(name, cookie)

(* The answer is 401 and the record, the in-memory copies of it, the       *)
(* requests to the remote store, the cycles and the OCR tasks are as they  *)
(* were.                                                                   *)
Only401(name) ==
    /\ calc' = [pc |-> "returned", arg |-> <<name>>, out |-> <<401>>, again |-> <<>>]
    /\ UNCHANGED <<file, pkce, tok, cfg, req, route, run, sched, manual, ocr, plogvars>>

(* C28: every route under /api/dropbox and /api/remarkable, called by an   *)
(* unauthenticated caller, answers 401 and does nothing else: the          *)
(* CredentialRecord is neither read nor written, no remote call is made,   *)
(* no sync and no OCR is started.                                          *)
C28_Unauthenticated401 ==
    [][\A name \in RouteNames, cookie \in Cookies :
          Unauthenticated(name, cookie) => Only401(name)]_vars

(* An expired session asked for a disconnect of the connected account: the *)
(* record is still there.                                                  *)
C28_Witness ==
    /\ calc.pc = "returned" /\ calc.arg = <<"/api/dropbox/disconnect">>
    /\ calc.out = <<401>>
    /\ file.exists /\ file.access_token # 0
    /\ route.pc = "await"

----------------------------------------------------------------------------
(* SpecDisconnect: the account is disconnected and connected again while   *)
(* manual syncs, their OCR tasks and config requests are in flight.        *)

(* One page per listing, holding one PDF; every call succeeds. *)
DisconnectAnswers(r) ==
    {a \in RemoteAnswers(r, {<<FileA>>}) : a.status = 200 /\ ~a.has_more}

InitDisconnect ==
    /\ file = Connected(NoCursor, <<>>)
    /\ trace = FALSE
    /\ InitRest

NextDisconnect ==
    \/ ManualStart
    \/ \E r \in RunIds : \E resp \in DisconnectAnswers(r) : FirstResponse(r, resp)
    \/ \E task \in ocr : \E outcome \in {"text", "empty"} : OcrFinish(task, outcome)
    \/ ConfigRoute(EnabledBody(FALSE))
    \/ Disconnect
    \/ InitiateAuth
    \/ \E status \in {200, 400} : OAuthCallback(status, 2, TRUE)

SpecDisconnect == InitDisconnect /\ [][NextDisconnect]_vars

(* oauth_callback stores the tokens of a code exchange that succeeded. *)
ExchangeSucceeds == \E t \in Tokens, b \in BOOLEAN : OAuthCallback(200, t, b)

(* The step puts a record where none was. *)
RecordAppears == ~file.exists /\ file'.exists

(* C29: the CredentialRecord is created by a successful OAuth exchange and *)
(* fully deleted by disconnect: after a disconnect no persisted record     *)
(* exists until the next successful OAuth exchange, whatever background    *)
(* cycle, OCR task or config request is in flight or follows.              *)
C29_Original ==
    /\ [][Disconnect => ~file'.exists]_vars
    /\ [][RecordAppears => ExchangeSucceeds]_vars

----------------------------------------------------------------------------
(* The cursor of a cycle that is in its for loop. *)

(* The last page that cycle r listed carried a cursor, and the cycle is at *)
(* one of the awaits of its for loop.                                      *)
CopyLoopWithCursor(r) == InLoop(run[r]) /\ run[r].data_cursor # NoCursor

(* C30: in run_sync the new cursor from the final listing page is written  *)
(* to the persisted SyncConfig before the first file of the batch is       *)
(* processed, so that a crash during the copy loop leaves the new cursor   *)
(* persisted.                                                              *)
C30_Original ==
    \A r \in RunIds :
        CopyLoopWithCursor(r) =>
            /\ file.exists
            /\ file.rs.last_sync_cursor = run[r].data_cursor

----------------------------------------------------------------------------
(* The pages of a listing and the files of the cycle. *)

(* The entries of a page that carry the tag file, in the order of the page. *)
RECURSIVE TaggedFile(_)
TaggedFile(entries) ==
    IF entries = <<>> THEN <<>>
    ELSE (IF Head(entries).tag = "file" THEN <<Head(entries)>> ELSE <<>>)
         \o TaggedFile(Tail(entries))

(* _dropbox_request hands resp to cycle r in this step. *)
Handed(r, resp) ==
    \/ ~ShouldRefresh(resp, tok[r]) /\ FirstResponse(r, resp)
    \/ RetryResponse(r, resp)

(* Cycle r awaits a listing call, and the 409 of a stale cursor apart,     *)
(* resp is what the call returns.                                          *)
PageAnswered(r, resp) ==
    /\ run[r].pc \in {"cont", "full", "page"}
    /\ ~(run[r].pc = "cont" /\ resp.status = 409)
    /\ Handed(r, resp)

(* The next await of cycle r is list_folder/continue with this cursor. *)
ContinuesWith(r, cursor) ==
    /\ run'[r].pc = "page"
    /\ req'[r].call = CallDesc("continue", cursor, "", "")

(* Cycle r is in its for loop or has returned after it. *)
AtFiles(r) == InLoop(run'[r]) \/ (run'[r].pc = "returned" /\ run'[r].ended = "saved")

(* The first listing call of cycle r has succeeded. *)
Listed(r) == run[r].pages >= 1

(* C31 as claimed: once its first listing call has succeeded, a cycle      *)
(* leaves the paging only with a page that reports has_more false.         *)
C31_Original ==
    [][\A r \in RunIds : \A resp \in RemoteAnswers(r, RichPages) :
          (run[r].pc = "page" /\ Handed(r, resp)) =>
              IF resp.status = 200 /\ ~resp.has_more THEN AtFiles(r)
              ELSE ContinuesWith(r, resp.cursor)]_vars

C31_Paging ==
    \A r \in RunIds : \A resp \in RemoteAnswers(r, RichPages) :
        PageAnswered(r, resp) =>
            CASE resp.status = 200 /\ resp.has_more ->
                    /\ run'[r].entries = run[r].entries \o TaggedFile(resp.entries)
                    /\ ContinuesWith(r, resp.cursor)
              [] resp.status = 200 /\ ~resp.has_more ->
                    /\ run'[r].entries = run[r].entries \o TaggedFile(resp.entries)
                    /\ AtFiles(r)
              [] resp.status = 0 ->
                    /\ run'[r].pc = "raised"
                    /\ Len(run'[r].results.details) = 0
              [] OTHER ->
                    /\ run'[r].entries = run[r].entries
                    /\ IF Listed(r) THEN AtFiles(r)
                       ELSE run'[r].pc = "returned" /\ run'[r].ended # "saved"

C31_FilesOnly ==
    \A r \in RunIds :
        /\ \A k \in 1..Len(run[r].entries) : run[r].entries[k].tag = "file"
        /\ \A k \in Processed(r) :
              /\ k <= Len(run[r].entries)
              /\ run[r].results.details[k].file_name = run[r].entries[k].name
              /\ EntryOf(r, k).file_name = run[r].entries[k].name
        /\ (Returned(r) /\ run[r].ended = "saved") =>
              Len(run[r].results.details) = Len(run[r].entries)
        /\ \A j \in 1..Len(run[r].calls) : run[r].calls[j].call.name # FolderD.name
        /\ \A k \in 1..Len(cfg[r].sync_log) : cfg[r].sync_log[k].file_name # FolderD.name

(* C31: the files a cycle processes are exactly the entries tagged file of *)
(* the first page and of every continue page answered with 200, in their   *)
(* order, followed until a page reports has_more false or a continue call  *)
(* is answered with another status; a continue call that raises ends the   *)
(* cycle with no file processed; folder entries are never copied or        *)
(* logged.                                                                 *)
C31_FilesOfAnsweredPages ==
    /\ []C31_FilesOnly
    /\ [][C31_Paging]_vars

(* A cycle has processed the file of its first page and the file of its    *)
(* second page.                                                            *)
C31_Witness ==
    \E r \in RunIds :
        /\ Returned(r) /\ run[r].ended = "saved"
        /\ run[r].pages = 2
        /\ Len(run[r].entries) = 2
        /\ run[r].entries[2] = FileB
        /\ Len(run[r].results.details) = 2
        /\ run[r].nListed = 2

----------------------------------------------------------------------------
(* segment_lines (ocr.py).  A page is its horizontal projection: the ink   *)
(* count of each row, rows numbered from 0 as in the code.  A crop of the  *)
(* rows s..e-1 is the pair <<s, e>> and the marker None is <<>>.           *)

MIN_LINE_HEIGHT == 15

NoneMarker == <<>>

(* projection.max() *)
PageMax(projection) ==
    IF projection = <<>> THEN 0
    ELSE CHOOSE m \in {projection[i] : i \in 1..Len(projection)} :
            \A i \in 1..Len(projection) : projection[i] <= m

(* Lines 90-91: `projection > threshold` for the row i, counted from 0,    *)
(* where the threshold is projection.max() * 0.02, or 0 on a page without  *)
(* ink.                                                                    *)
InLine(projection, i) ==
    LET max == PageMax(projection)
    IN  IF max > 0 THEN projection[i + 1] * 100 > max * 2 ELSE projection[i + 1] > 0

(* Lines 97-102: one iteration of the for loop over the rows; start is -1  *)
(* for None.                                                               *)
RowStep(val, i, start, spans, min_line_height) ==
    IF val /\ start = -1 THEN [start |-> i, spans |-> spans]
    ELSE IF ~val /\ start # -1
    THEN [start |-> -1,
          spans |-> IF i - start > min_line_height
                    THEN Append(spans, <<start, i>>) ELSE spans]
    ELSE [start |-> start, spans |-> spans]

(* SpansAfterLoop without lines 103-104. *)
SpansWithoutOpenRun(height, start, spans, min_line_height) == spans

(* Lines 103-104: the run that is open after the last row. *)
SpansAfterLoop(height, start, spans, min_line_height) ==
    IF start # -1 /\ height - start > min_line_height
    THEN Append(spans, <<start, height>>) ELSE spans

(* sum(e - s for s, e in spans) *)
RECURSIVE SumHeights(_)
SumHeights(spans) ==
    IF spans = <<>> THEN 0
    ELSE (Head(spans)[2] - Head(spans)[1]) + SumHeights(Tail(spans))

(* BreakBefore that takes a gap of the average height for a break. *)
BreakBeforeInclusive(spans, idx) ==
    /\ idx > 1
    /\ (spans[idx][1] - spans[idx - 1][2]) * Len(spans) >= SumHeights(spans)

(* Lines 116-119: `gap > avg_height` for the span number idx, counted from *)
(* 1, where avg_height is sum(...) / len(spans).                           *)
BreakBefore(spans, idx) ==
    /\ idx > 1
    /\ (spans[idx][1] - spans[idx - 1][2]) * Len(spans) > SumHeights(spans)

(* Lines 113-120: the for loop over the spans from span idx on. *)
RECURSIVE BuildLines(_, _, _)
BuildLines(spans, idx, lines) ==
    IF idx > Len(spans) THEN lines
    ELSE BuildLines(spans, idx + 1,
                    Append(IF BreakBefore(spans, idx) THEN Append(lines, NoneMarker)
                           ELSE lines,
                           spans[idx]))

(* Lines 106-122: the lines segment_lines returns for its spans. *)
LinesOf(spans) == IF spans = <<>> THEN <<>> ELSE BuildLines(spans, 1, <<>>)

----------------------------------------------------------------------------
(* SpecSegment: segment_lines on pages of up to MaxSegments bands; a band  *)
(* is 1, 15, 16 or 17 rows with the same ink count, which is 0, 2, 3 or    *)
(* 100.                                                                    *)

RECURSIVE Rows(_)
Rows(bands) ==
    IF bands = <<>> THEN <<>>
    ELSE [i \in 1..Head(bands).rows |-> Head(bands).ink] \o Rows(Tail(bands))

BandsOf(inks, heights, n) ==
    UNION {[1..k -> [ink : inks, rows : heights]] : k \in 0..n}

SegmentPages == {Rows(b) : b \in BandsOf({0, 2, 3, 100}, {1, 15, 16, 17}, MaxSegments)}

(* segment_lines is called with the page: the for loop of line 96 is at   *)
(* its first row.                                                          *)
Called(projection) ==
    [pc |-> "rows", arg |-> projection, i |-> 0, start |-> -1, spans |-> <<>>,
     out |-> <<>>]

InitSegment ==
    /\ calc \in {Called(page) : page \in SegmentPages}
    /\ clock = Epoch
    /\ file = EmptyTokens /\ trace = FALSE /\ plog = NoLog
    /\ InitCore

(* One iteration of the for loop of lines 96-102. *)
SegmentRow ==
    /\ calc.pc = "rows" /\ calc.i < Len(calc.arg)
    /\ LET next == RowStep(InLine(calc.arg, calc.i), calc.i, calc.start, calc.spans,
                           MIN_LINE_HEIGHT)
       IN  calc' = [calc EXCEPT !.i = @ + 1, !.start = next.start, !.spans = next.spans]
    /\ UNCHANGED progvars

(* Lines 103-122: the rows are through; segment_lines returns its lines. *)
SegmentReturns ==
    /\ calc.pc = "rows" /\ calc.i = Len(calc.arg)
    /\ LET spans == SpansAfterLoop(Len(calc.arg), calc.start, calc.spans, MIN_LINE_HEIGHT)
       IN  calc' = [calc EXCEPT !.pc = "returned", !.spans = spans, !.out = LinesOf(spans)]
    /\ UNCHANGED progvars

NextSegment == SegmentRow \/ SegmentReturns

SpecSegment == InitSegment /\ [][NextSegment]_vars

(* Row i of the page, counted from 0, is an in-line row: its ink count is  *)
(* above 2% of the largest ink count of the page.                          *)
InkRow(page, i) ==
    /\ i >= 0 /\ i < Len(page)
    /\ 50 * page[i + 1] > PageMax(page)

(* The maximal runs of in-line rows of the page, as pairs <<first row,     *)
(* row after the last>>.                                                   *)
MaximalRuns(page) ==
    {<<s, e>> \in (0..Len(page)) \X (0..Len(page)) :
        /\ s < e
        /\ InkRow(page, s) /\ ~InkRow(page, s - 1)
        /\ InkRow(page, e - 1) /\ ~InkRow(page, e)
        /\ \A i \in s..(e - 1) : InkRow(page, i)}

(* The line images of an output, the markers left out. *)
Images(lines) == SelectSeq(lines, LAMBDA x : x # NoneMarker)

(* C32: segment_lines yields one line image for each maximal run of        *)
(* consecutive in-line rows whose length is strictly greater than 15, in   *)
(* the order of the page, a run that reaches the bottom row included;      *)
(* runs of 15 rows or fewer yield nothing and a blank page yields the      *)
(* empty sequence.                                                         *)
C32_OneImagePerRun ==
    calc.pc = "returned" =>
        LET images == Images(calc.out)
            long == {span \in MaximalRuns(calc.arg) : span[2] - span[1] > 15}
        IN  /\ {images[k] : k \in 1..Len(images)} = long
            /\ Len(images) = Cardinality(long)
            /\ \A k \in 1..(Len(images) - 1) : images[k][2] <= images[k + 1][1]
            /\ PageMax(calc.arg) = 0 => calc.out = <<>>

(* A page of 47 rows: a run of 15 rows, a white band, and a run of 16 rows *)
(* that reaches the bottom row; the output is the crop of the second run.  *)
C32_Witness ==
    /\ calc.pc = "returned"
    /\ Len(calc.arg) = 47
    /\ <<0, 15>> \in MaximalRuns(calc.arg)
    /\ calc.out = << <<31, 47>> >>

----------------------------------------------------------------------------
(* SpecGap: segment_lines on pages of up to MaxBands bands of 1, 16 or 17  *)
(* rows, each band all ink or all white.                                   *)

GapPages == {Rows(b) : b \in BandsOf({0, 100}, {1, 16, 17}, MaxBands)}

InitGap ==
    /\ calc \in {Called(page) : page \in GapPages}
    /\ clock = Epoch
    /\ file = EmptyTokens /\ trace = FALSE /\ plog = NoLog
    /\ InitCore

SpecGap == InitGap /\ [][NextSegment]_vars

(* The rows of the page that lie in a line image of the output: their      *)
(* number is the sum of the span heights.                                  *)
RowsInImages(lines) ==
    {i \in 0..(Len(calc.arg) - 1) :
        \E k \in 1..Len(lines) :
            lines[k] # NoneMarker /\ lines[k][1] <= i /\ i < lines[k][2]}

(* The position in the output of the line image that follows the one at    *)
(* position p, or 0 when it is not among the next two.                     *)
NextImage(lines, p) ==
    IF p + 1 <= Len(lines) /\ lines[p + 1] # NoneMarker THEN p + 1
    ELSE IF p + 2 <= Len(lines) /\ lines[p + 2] # NoneMarker THEN p + 2
    ELSE 0

(* C33: between two consecutive line spans segment_lines inserts exactly   *)
(* one break marker when the gap between them is strictly greater than the *)
(* mean span height of the page, and none otherwise; the output never      *)
(* starts or ends with a marker and never holds two markers in a row.      *)
C33_BreakMarkers ==
    calc.pc = "returned" =>
        LET lines == calc.out
            n == Len(Images(lines))
        IN  /\ lines # <<>> => lines[1] # NoneMarker /\ lines[Len(lines)] # NoneMarker
            /\ \A p \in 1..(Len(lines) - 1) :
                  /\ ~(lines[p] = NoneMarker /\ lines[p + 1] = NoneMarker)
                  /\ lines[p] # NoneMarker =>
                        /\ NextImage(lines, p) # 0
                        /\ NextImage(lines, p) = p + 2 <=>
                              (lines[NextImage(lines, p)][1] - lines[p][2]) * n
                                  > Cardinality(RowsInImages(lines))

(* Spans of 16, 17 and 16 rows: a marker in the gap of 17 rows, none in    *)
(* the gap of 16 rows.                                                     *)
C33_Witness ==
    /\ calc.pc = "returned"
    /\ calc.out = << <<0, 16>>, NoneMarker, <<33, 50>>, <<66, 82>> >>

----------------------------------------------------------------------------
(* ocr_pdf (ocr.py).  A page is the list segment_lines returned for it: a  *)
(* line image is the string "line" and the marker None is "".              *)

LineImage == "line"
NoImage == ""

(* CountLines that counts the markers too. *)
CountItems(page_lines) == Len(page_lines)

(* Line 168: sum(1 for l in page_lines if l is not None) *)
CountLines(page_lines) == Len(SelectSeq(page_lines, LAMBDA l : l # NoImage))

(* Lines 162-168: the first pass over the pages. *)
RECURSIVE TotalLines(_)
TotalLines(all_page_lines) ==
    IF all_page_lines = <<>> THEN 0
    ELSE CountLines(Head(all_page_lines)) + TotalLines(Tail(all_page_lines))

(* What segment_lines may return for a page. *)
PageLines ==
    {<<>>, <<LineImage>>, <<LineImage, LineImage>>, <<LineImage, NoImage, LineImage>>}

Documents == UNION {[1..n -> PageLines] : n \in 0..MaxSheets}

(* ocr_pdf is called: pdf_to_images has returned the pages. *)
OcrPdfCalled(pages, callback) ==
    [pc |-> "called", arg |-> pages, callback |-> callback, total_lines |-> 0,
     lines_done |-> 0, page_num |-> 0, pos |-> 1, all_texts |-> <<>>,
     calls |-> <<>>, recognised |-> 0, counted |-> 0, out |-> <<>>]

InitOcrPdf ==
    /\ calc \in {OcrPdfCalled(pages, cb) : pages \in Documents, cb \in BOOLEAN}
    /\ clock = Epoch
    /\ file = EmptyTokens /\ trace = FALSE /\ plog = NoLog
    /\ InitCore

(* Lines 160-172: the first pass.  `counted` is the number of calls of     *)
(* recognise_lines that had returned when the pass was over.               *)
OcrPdfFirstPass ==
    /\ calc.pc = "called"
    /\ calc' = [calc EXCEPT !.pc = "second", !.total_lines = TotalLines(calc.arg),
                            !.counted = calc.recognised]
    /\ UNCHANGED progvars

(* Lines 179-181: the item of the page is a marker. *)
OcrPdfBreak ==
    /\ calc.pc = "second" /\ calc.page_num < Len(calc.arg)
    /\ calc.pos <= Len(calc.arg[calc.page_num + 1])
    /\ calc.arg[calc.page_num + 1][calc.pos] = NoImage
    /\ calc' = [calc EXCEPT !.all_texts = Append(@, ""), !.pos = @ + 1]
    /\ UNCHANGED progvars

(* Lines 182-186: the item is a line image and recognise_lines returns its *)
(* text, or raises; an exception is caught at line 198.                    *)
OcrPdfLine(raises) ==
    /\ calc.pc = "second" /\ calc.page_num < Len(calc.arg)
    /\ calc.pos <= Len(calc.arg[calc.page_num + 1])
    /\ calc.arg[calc.page_num + 1][calc.pos] # NoImage
    /\ IF raises
       THEN calc' = [calc EXCEPT !.pc = "returned", !.out = <<>>]
       ELSE calc' = [calc EXCEPT
                !.all_texts = Append(@, "text"),
                !.recognised = @ + 1,
                !.lines_done = @ + 1,
                !.pos = @ + 1,
                !.calls = IF calc.callback /\ calc.total_lines > 0
                          THEN Append(@, <<calc.lines_done + 1, calc.total_lines>>)
                          ELSE @]
    /\ UNCHANGED progvars

(* Lines 187-188: the page is through. *)
OcrPdfPageEnd ==
    /\ calc.pc = "second" /\ calc.page_num < Len(calc.arg)
    /\ calc.pos > Len(calc.arg[calc.page_num + 1])
    /\ calc' = [calc EXCEPT !.page_num = @ + 1, !.pos = 1,
                            !.all_texts = IF calc.page_num < Len(calc.arg) - 1
                                          THEN Append(@, "") ELSE @]
    /\ UNCHANGED progvars

(* Lines 190-197: the text is returned, here as the list of its lines. *)
OcrPdfReturns ==
    /\ calc.pc = "second" /\ calc.page_num = Len(calc.arg)
    /\ calc' = [calc EXCEPT !.pc = "returned", !.out = calc.all_texts]
    /\ UNCHANGED progvars

NextOcrPdf ==
    \/ OcrPdfFirstPass
    \/ OcrPdfBreak
    \/ \E raises \in BOOLEAN : OcrPdfLine(raises)
    \/ OcrPdfPageEnd
    \/ OcrPdfReturns

SpecOcrPdf == InitOcrPdf /\ [][NextOcrPdf]_vars

(* The line images of all pages of the document. *)
ImagesOf(pages) ==
    {<<p, k>> \in (1..Len(pages)) \X (1..3) : k <= Len(pages[p]) /\ pages[p][k] = LineImage}

(* C34: ocr_pdf counts the recognisable lines of all pages before it       *)
(* recognises any line, and with a callback and a total above 0 it calls   *)
(* the callback exactly once per recognised line, with lines_done = 1, 2,  *)
(* ... in that order, up to the total when every line was recognised, and  *)
(* with the same total in every call; break markers do not advance         *)
(* lines_done.                                                             *)
C34_ProgressCalls ==
    LET total == Cardinality(ImagesOf(calc.arg))
    IN  /\ calc.recognised > 0 => (calc.counted = 0 /\ calc.total_lines = total)
        /\ calc.lines_done = calc.recognised
        /\ Len(calc.calls) = IF calc.callback /\ total > 0 THEN calc.recognised ELSE 0
        /\ \A k \in 1..Len(calc.calls) : calc.calls[k] = <<k, total>>
        /\ (calc.pc = "returned" /\ (calc.out # <<>> \/ total = 0)) =>
              calc.recognised = total

(* Two pages, the second with a break between its two lines: three calls   *)
(* of the callback, the last one with 3 of 3.                              *)
C34_Witness ==
    /\ calc.pc = "returned" /\ calc.callback
    /\ calc.arg = << <<LineImage>>, <<LineImage, NoImage, LineImage>> >>
    /\ calc.calls = << <<1, 3>>, <<2, 3>>, <<3, 3>> >>
    /\ calc.out = <<"text", "", "text", "", "text">>

----------------------------------------------------------------------------
(* SpecMirror: cycles of the loop and manual syncs against a remote store   *)
(* whose source folder holds two files that never change, and whose        *)
(* destination holds what the cycles copied into it.  list_folder lists    *)
(* the folder; list_folder/continue lists what changed since its cursor    *)
(* was issued, which is nothing.  Only copy calls fail.                    *)

SourceFolder == <<FileA, FileB>>

(* A copy of the file has succeeded: the file is in the destination. *)
InDestination(name) ==
    \E r \in RunIds : \E k \in 1..Len(run[r].hist) :
        /\ k <= Len(run[r].entries)
        /\ run[r].entries[k].name = name
        /\ run[r].hist[k].copy = 200

MirrorAnswers(r) ==
    LET call == req[r].call
    IN  {a \in RemoteAnswers(r, {<<>>, SourceFolder}) :
            /\ ~a.has_more
            /\ CASE call.kind = "list_folder" -> a.status = 200 /\ a.entries = SourceFolder
                 [] call.kind = "continue" -> a.status = 200 /\ a.entries = <<>>
                 [] call.kind = "get_metadata" ->
                        IF InDestination(call.name)
                        THEN a.status = 200 /\ \E e \in {FileA, FileB} :
                                e.name = call.name /\ a.size = e.size
                        ELSE a.status = 409
                 [] call.kind = "copy" -> a.status \in {200, 409, 0}
                 [] OTHER -> a.status = 200}

InitMirror ==
    /\ file = Connected(NoCursor, <<>>)
    /\ trace = TRUE
    /\ InitRest

NextMirror ==
    \/ LoopIterate
    \/ ManualStart
    \/ \E r \in RunIds : \E resp \in MirrorAnswers(r) : FirstResponse(r, resp)

SpecMirror == InitMirror /\ [][NextMirror]_vars

(* Cycle r has returned, and the copy of the file failed in it. *)
CopyFailedIn(r, name) ==
    /\ Returned(r)
    /\ \E k \in 1..Len(run[r].hist) :
          /\ run[r].entries[k].name = name
          /\ run[r].hist[k].copy \in {409, 0}

(* Cycle q has looked for the file in the destination. *)
TriedIn(q, name) ==
    \E j \in CallsOf(q, "get_metadata") : run[q].calls[j].call.name = name

(* Cycle q started from the cursor that cycle r stored. *)
StartedAfter(q, r) ==
    /\ run[r].data_cursor # NoCursor
    /\ run[q].startCursor = run[r].data_cursor

(* C35: if a listed file's copy fails in one cycle and the source file     *)
(* does not change afterwards, a later reconciliation cycle tries that     *)
(* file again, so that once the remote store answers normally every file   *)
(* of the source folder is eventually present in the destination tree.     *)
C35_Original ==
    \A r, q \in RunIds : \A name \in {FileA.name, FileB.name} :
        (CopyFailedIn(r, name) /\ StartedAfter(q, r) /\ Returned(q)) =>
            TriedIn(q, name)

(* The copies of the file that succeeded, as pairs of the cycle and the    *)
(* number of the file in it; all cycles of SpecMirror run on the same day  *)
(* and so copy into the same bucket.                                       *)
CopiesOf(name) ==
    {<<r, k>> \in RunIds \X (1..Len(SourceFolder)) :
        /\ k <= Len(run[r].hist) /\ k <= Len(run[r].entries)
        /\ run[r].entries[k].name = name
        /\ run[r].hist[k].copy = 200}

(* C36: a source file that is absent from the destination is copied        *)
(* exactly once per bucket even when a manual sync and a periodic cycle    *)
(* process it at the same time: the two cycles never each issue a copy     *)
(* that leaves an auto-renamed duplicate next to dest_path.                *)
C36_Original ==
    \A name \in {FileA.name, FileB.name} : Cardinality(CopiesOf(name)) <= 1

----------------------------------------------------------------------------
(* The outcome of the upload of the text file and what the task reports. *)

(* C38: a SyncLogEntry gets ocr_status = completed, and a `completed`      *)
(* Progress Log line is written, only if the upload of the text file to    *)
(* ocr_text_path succeeded; an upload the remote store rejects (a non-200  *)
(* response) is reported as an error instead.                              *)
C38_Original ==
    \A r \in RunIds :
        /\ Marked(cfg[r].sync_log) # {} => job[r].uploaded = "stored"
        /\ HasKind(job[r].msgs, "completed") => job[r].uploaded = "stored"
        /\ (job[r].pc = "done" /\ job[r].uploaded = "refused")
              => HasKind(job[r].msgs, "error")

----------------------------------------------------------------------------
(* The save of an OCR task and the record it replaces. *)

(* A persisted config without the OCR fields of its log entries. *)
WithoutOcrFields(rs) ==
    [rs EXCEPT !.sync_log = [i \in 1..Len(rs.sync_log) |->
                                [rs.sync_log[i] EXCEPT !.ocr_status = ""]]]

OcrSaves == \E task \in ocr : OcrFinish(task, "text")

(* C37: when an OCR task saves its result, the only change to the          *)
(* persisted record is the OCR fields of the matching SyncLogEntry: the    *)
(* cursor, enabled, the folders, the poll interval and every log entry     *)
(* persisted after the spawning cycle took its snapshot stay as persisted. *)
C37_Original ==
    [][OcrSaves => WithoutOcrFields(file'.rs) = WithoutOcrFields(file.rs)]_vars

----------------------------------------------------------------------------
(* Where the remote store creates a copy. *)

(* _copy_file, lines 104-110: files/copy_v2 is sent with autorename true.  *)
(* The remote store does not overwrite: when to_path is occupied it        *)
(* creates the copy under the name with " (1)" in front of the extension.  *)
CopyCreatedAt(name, occupied) ==
    LET dots == {i \in 1..Len(name) : name[i] = "."}
        cut == IF dots = {} THEN Len(name)
               ELSE (CHOOSE i \in dots : \A k \in dots : i >= k) - 1
    IN  IF occupied
        THEN SubSeq(name, 1, cut) \o <<" ", "(", "1", ")">>
                \o SubSeq(name, cut + 1, Len(name))
        ELSE name

(* The files of cycle r whose copy succeeded. *)
Copied(r) ==
    {k \in Processed(r) :
        run[r].results.details[k].status \in {"copied", "copied (updated)"}}

(* C39: for every copied file, the dest_path recorded in its SyncLogEntry  *)
(* and handed to the OCR task is the path at which the copy was actually   *)
(* created, also for `copied (updated)`, where dest_path is already        *)
(* occupied and the copy is auto-renamed.                                  *)
C39_Original ==
    \A r \in RunIds : \A k \in Copied(r) :
        LET recorded == EntryOf(r, k).dest_path
        IN  /\ recorded = DestPath(run[r], run[r].entries[k])
            /\ CopyCreatedAt(Chars(recorded.name), run[r].hist[k].meta = 200)
                  = Chars(recorded.name)

----------------------------------------------------------------------------
(* SpecThreads: two OCR tasks have handed ocr_pdf to the default executor  *)
(* (remarkable_sync.py, lines 219-221), so two worker threads run ocr_pdf  *)
(* on readable documents of MaxLines lines and share the module globals    *)
(* _processor and _model of ocr.py.  A thread is switched between two      *)
(* accesses of a global; every step below holds one access.                *)

Workers == 1..2

(* ocr.py, lines 21-22: both globals are None; no thread has started. *)
NoThread ==
    [pc |-> "idle", processor |-> FALSE, model |-> FALSE, lines_done |-> 0,
     failed |-> FALSE, out |-> ""]

InitThreads ==
    /\ calc = [pc |-> "threads", processor |-> FALSE, model |-> FALSE,
               th |-> [t \in Workers |-> NoThread]]
    /\ clock = Epoch
    /\ file = EmptyTokens /\ trace = FALSE /\ plog = NoLog
    /\ InitCore

ThreadAt(t, pc) == calc.th[t].pc = pc

(* ocr_pdf, lines 158-176: the pages are rendered and segmented, and the   *)
(* first line image is handed to recognise_lines.                          *)
OcrPdfStart(t) ==
    /\ ThreadAt(t, "idle")
    /\ calc' = [calc EXCEPT !.th[t].pc = "test"]
    /\ UNCHANGED progvars

(* _load_model, line 28: the test of _processor. *)
LoadModelTest(t) ==
    /\ ThreadAt(t, "test")
    /\ calc' = [calc EXCEPT !.th[t].pc = IF calc.processor THEN "return" ELSE "load"]
    /\ UNCHANGED progvars

(* _load_model, line 38: the processor is loaded and assigned. *)
LoadModelProcessor(t) ==
    /\ ThreadAt(t, "load")
    /\ calc' = [calc EXCEPT !.processor = TRUE, !.th[t].pc = "load model"]
    /\ UNCHANGED progvars

(* _load_model, lines 39-43: the model is loaded and assigned. *)
LoadModelModel(t) ==
    /\ ThreadAt(t, "load model")
    /\ calc' = [calc EXCEPT !.model = TRUE, !.th[t].pc = "eval"]
    /\ UNCHANGED progvars

(* _load_model, line 44: _model.eval() reads the global; on None it raises *)
(* and the except of ocr_pdf (lines 200-202) takes over.                   *)
LoadModelEval(t) ==
    /\ ThreadAt(t, "eval")
    /\ calc' = IF calc.model
               THEN [calc EXCEPT !.th[t].pc = "return"]
               ELSE [calc EXCEPT !.th[t].pc = "unload", !.th[t].failed = TRUE]
    /\ UNCHANGED progvars

(* _load_model, lines 29 and 48: `return _processor, _model` reads the     *)
(* first global ...                                                        *)
LoadModelReturnProcessor(t) ==
    /\ ThreadAt(t, "return")
    /\ calc' = [calc EXCEPT !.th[t].processor = calc.processor,
                            !.th[t].pc = "return model"]
    /\ UNCHANGED progvars

(* ... and then the second one. *)
LoadModelReturnModel(t) ==
    /\ ThreadAt(t, "return model")
    /\ calc' = [calc EXCEPT !.th[t].model = calc.model, !.th[t].pc = "recognise"]
    /\ UNCHANGED progvars

(* recognise_lines, lines 133-140, and ocr_pdf, lines 182-188: the line is *)
(* recognised with the processor and the model _load_model returned; a     *)
(* None among them raises, and ocr_pdf returns "" (lines 200-202).         *)
RecogniseLine(t) ==
    /\ ThreadAt(t, "recognise")
    /\ LET th == calc.th[t]
       IN  calc' = IF ~(th.processor /\ th.model)
                   THEN [calc EXCEPT !.th[t].pc = "unload", !.th[t].failed = TRUE]
                   ELSE [calc EXCEPT !.th[t].lines_done = @ + 1,
                                     !.th[t].pc = IF th.lines_done + 1 < MaxLines
                                                  THEN "test" ELSE "unload"]
    /\ UNCHANGED progvars

(* _unload_model, line 54, called from the finally of ocr_pdf. *)
UnloadModelProcessor(t) ==
    /\ ThreadAt(t, "unload")
    /\ calc' = [calc EXCEPT !.processor = FALSE, !.th[t].pc = "unload model"]
    /\ UNCHANGED progvars

(* _unload_model, line 55; ocr_pdf returns the text, or "" after an        *)
(* exception.                                                              *)
UnloadModelModel(t) ==
    /\ ThreadAt(t, "unload model")
    /\ calc' = [calc EXCEPT !.model = FALSE, !.th[t].pc = "returned",
                            !.th[t].out = IF calc.th[t].failed THEN "" ELSE "text"]
    /\ UNCHANGED progvars

NextThreads ==
    \E t \in Workers :
        \/ OcrPdfStart(t)
        \/ LoadModelTest(t)
        \/ LoadModelProcessor(t)
        \/ LoadModelModel(t)
        \/ LoadModelEval(t)
        \/ LoadModelReturnProcessor(t)
        \/ LoadModelReturnModel(t)
        \/ RecogniseLine(t)
        \/ UnloadModelProcessor(t)
        \/ UnloadModelModel(t)

SpecThreads == InitThreads /\ [][NextThreads]_vars

(* C40: with two OCR invocations running on worker threads at the same     *)
(* time, _load_model never hands a caller a missing (None) processor or    *)
(* model: neither the unload at the end of one invocation nor a load still *)
(* in progress in another makes a recognition call fail and turns a        *)
(* readable document into empty text.                                      *)
C40_Original ==
    \A t \in Workers :
        /\ ThreadAt(t, "recognise") => calc.th[t].processor /\ calc.th[t].model
        /\ ~calc.th[t].failed
        /\ ThreadAt(t, "returned") => calc.th[t].out = "text"

====
